---- MODULE Spec2Model ----
(***************************************************************************)
(* The plane / texture / video binding and mode switching of class Arena   *)
(* (the variant with 2D planes, a versioned 3D model and composite         *)
(* planes).  One action per public method or asynchronous continuation;    *)
(* every action is one run-to-completion task of the browser event loop.   *)
(***************************************************************************)
EXTENDS Integers, Sequences, FiniteSets, TLC

\* ------------------------------------------------------------------ bounds
\* number of asynchronous loads begun in a behaviour: the video loads of
\* loadVideoOnPlane and the asset loads of load3DModel, the constructor's included
MaxAsync == 3

\* the animation frames that may be requested and not yet run, and the
\* timeouts that may be pending, in one behaviour
MaxFrames == 3

\* ------------------------------------------------------------ static data
\* Arena.planeConfigs (colours are the hex literals of the source, in decimal)
planeConfigs ==
    << [name |-> "A7",        width |-> 6240,  height |-> 192,  color |-> 16739179],
       [name |-> "BIG-MAP",   width |-> 3840,  height |-> 552,  color |-> 5164484],
       [name |-> "ICE",       width |-> 4000,  height |-> 2000, color |-> 4569041],
       [name |-> "A1",        width |-> 10512, height |-> 144,  color |-> 9883316],
       [name |-> "A2",        width |-> 10800, height |-> 144,  color |-> 16771751],
       [name |-> "K2",        width |-> 6976,  height |-> 672,  color |-> 14524637],
       [name |-> "K4",        width |-> 5280,  height |-> 480,  color |-> 16611752],
       [name |-> "Skeptrons", width |-> 512,   height |-> 200,  color |-> 47252],
       [name |-> "Stairs",    width |-> 48,    height |-> 16,   color |-> 14774357],
       [name |-> "A9",        width |-> 3840,  height |-> 552,  color |-> 5164484] >>

\* the names of the catalog: the keys of planeMap after createPlanes
PlaneNames == { planeConfigs[i].name : i \in DOMAIN planeConfigs }

\* planeConfigs.find(config => config.name === n).color
ConfigColor(n) == planeConfigs[CHOOSE i \in DOMAIN planeConfigs : planeConfigs[i].name = n].color

\* Math.max(...planeConfigs.map(p => Math.max(p.width, p.height)))
maxDimension ==
    CHOOSE d \in { planeConfigs[i].width : i \in DOMAIN planeConfigs }
                 \cup { planeConfigs[i].height : i \in DOMAIN planeConfigs } :
        \A i \in DOMAIN planeConfigs :
            planeConfigs[i].width <= d /\ planeConfigs[i].height <= d

\* lengths of the scene are counted in units of 1/(2 * maxDimension), in which
\* scaleFactor = 15 / maxDimension and minSize = 0.5 are whole numbers:
\* config.width * scaleFactor, for a width or height d
ScaledLength(d) == 30 * d

\* minSize = 0.5, in those units
minSize == maxDimension

\* Math.max(scaledWidth, minSize), for a width or height d
VisibleLength(d) == IF ScaledLength(d) >= minSize THEN ScaledLength(d) ELSE minSize

\* planeConfigs.find(config => config.name === n)
ConfigOf(n) == planeConfigs[CHOOSE i \in DOMAIN planeConfigs : planeConfigs[i].name = n]

\* the PlaneGeometry createPlanes builds for the plane of catalog name n
PlaneGeometry(n) ==
    [ width |-> VisibleLength(ConfigOf(n).width),
      height |-> VisibleLength(ConfigOf(n).height) ]

\* the names passed to the plane operations: the two composites, a plain
\* plane, the catalog entry A9 that is also a BIG-MAP part, an unknown name,
\* and a name that is a mesh name of the asset and no catalog entry
BindNames == {"A7", "BIG-MAP", "ICE", "A9", "Lobby", "A0"}

\* the bind names that are mesh names of the asset and no catalog entries
MeshOnlyNames == BindNames \cap {"A0", "A6", "A8"}

\* the duration of the file sources, in seconds
FileDuration == 200

\* the percentages passed to seekAllVideos
Percentages == {0, 50, 100}

\* the versions offered to setModelVersion
Versions == {3, 4}

\* private currentModelVersion: number = 3
DefaultVersion == 3

\* the versions the page accepts: version < 1 || version > 10 is refused
SupportedVersions == 1 .. 10

\* strings are sequences of characters; the decimal digits in order
Digits == << "0", "1", "2", "3", "4", "5", "6", "7", "8", "9" >>

IsDigit(c) == \E i \in DOMAIN Digits : Digits[i] = c

DigitValue(c) == (CHOOSE i \in DOMAIN Digits : Digits[i] = c) - 1

\* n.toString() for a whole number n >= 0
RECURSIVE toString(_)
toString(n) ==
    IF n < 10 THEN << Digits[n + 1] >>
    ELSE toString(n \div 10) \o << Digits[(n % 10) + 1] >>

\* parseInt skips leading white space
RECURSIVE SkipWhiteSpace(_)
SkipWhiteSpace(str) ==
    IF str # << >> /\ Head(str) = " " THEN SkipWhiteSpace(Tail(str)) ELSE str

\* the longest prefix of digits: parseInt stops at the first other character
RECURSIVE DigitPrefix(_)
DigitPrefix(str) ==
    IF str # << >> /\ IsDigit(Head(str))
    THEN << Head(str) >> \o DigitPrefix(Tail(str))
    ELSE << >>

\* the value of a sequence of digits in radix 10
RECURSIVE DecimalValue(_)
DecimalValue(ds) ==
    IF ds = << >> THEN 0
    ELSE 10 * DecimalValue(SubSeq(ds, 1, Len(ds) - 1)) + DigitValue(ds[Len(ds)])

\* parseInt(str, 10): nan when no digit follows the optional sign
parseInt(str) ==
    LET t == SkipWhiteSpace(str)
        signed == t # << >> /\ Head(t) \in {"-", "+"}
        ds == DigitPrefix(IF signed THEN Tail(t) ELSE t)
    IN  IF ds = << >> THEN [nan |-> TRUE, value |-> 0]
        ELSE [nan |-> FALSE,
              value |-> IF signed /\ Head(t) = "-" THEN 0 - DecimalValue(ds)
                        ELSE DecimalValue(ds)]

\* localStorage.getItem returns null when the key has no entry
NoItem == << "null" >>

\* the entries the store may hold at startup
StoredValues ==
    { NoItem, << >>, << "3" >>, << "4" >>, << "1", "0" >>, << "1", "1" >>,
      << "0" >>, << "-", "1" >>, << "a" >>, << "4", "x" >>, << " ", "3" >>,
      << "2", ".", "7" >> }

\* loadModelVersionFromStorage: the value of currentModelVersion after it;
\* readable is false when localStorage.getItem throws
loadModelVersionFromStorage(stored, readable) ==
    IF ~readable \/ stored = NoItem THEN DefaultVersion
    ELSE IF ~parseInt(stored).nan /\ parseInt(stored).value > 0
         THEN parseInt(stored).value
    ELSE DefaultVersion

\* the mesh names of the asset of version v, in traversal order
AssetMeshes(v) ==
    << "A701", "A702", "A0", "A9", "ICE", "Skeptrons", "K2 inner", "Ceiling", "Floor" >>

\* every mesh name that occurs in an asset
MeshNames == UNION { { AssetMeshes(v)[i] : i \in DOMAIN AssetMeshes(v) } : v \in Versions }

\* /^A7[0-9]+$/.test(name), over the mesh names of the assets
IsA7Part(name) == name \in {"A701", "A702"}

\* name === 'A0' || 'A6' || 'A8' || 'A9'
IsBigMapPart(name) == name \in {"A0", "A6", "A8", "A9"}

\* name.toLowerCase() includes 'ceiling', 'roof' or 'top', over the mesh names
IsCeiling(name) == name \in {"Ceiling"}

\* the keys model3DPlanes can get
Keys3D == PlaneNames \cup {"A0", "A6", "A8"}

\* ------------------------------------------------------------- UV mapping
\* the numbers of applyUVMapping are fractions n/d with d > 0, kept in lowest
\* terms; the code computes them in double precision
RECURSIVE GCD(_, _)
GCD(a, b) == IF b = 0 THEN a ELSE GCD(b, a % b)

Fr(n, d) ==
    LET g == GCD(IF n < 0 THEN 0 - n ELSE n, d)
    IN  [n |-> n \div g, d |-> d \div g]

FrLess(a, b) == a.n * b.d < b.n * a.d

FrSub(a, b) == Fr(a.n * b.d - b.n * a.d, a.d * b.d)

FrAdd(a, b) == Fr(a.n * b.d + b.n * a.d, a.d * b.d)

\* a / b for b > 0
FrDiv(a, b) == Fr(a.n * b.d, a.d * b.n)

\* Math.abs(a)
FrAbs(a) == IF a.n < 0 THEN [n |-> 0 - a.n, d |-> a.d] ELSE a

\* Math.max(a, b)
FrMax(a, b) == IF FrLess(a, b) THEN b ELSE a

\* a / 2
FrHalf(a) == Fr(a.n, 2 * a.d)

FrOne == Fr(1, 1)

FrZero == Fr(0, 1)

\* the tolerance 0.1 of the comparison of the two aspect ratios
Tolerance == Fr(1, 10)

\* videoTexture.repeat (scale) and videoTexture.offset
Crop(scaleX, scaleY, offsetX, offsetY) ==
    [scaleX |-> scaleX, scaleY |-> scaleY, offsetX |-> offsetX, offsetY |-> offsetY]

\* repeat.set(1, 1) and offset.set(0, 0): the full texture
IdentityCrop == Crop(FrOne, FrOne, FrZero, FrZero)

\* a floor that would be the default 0.001 on every plane
MinScaleDefaultOnly(planeName) == Fr(1, 1000)

\* let minScale of the vertical crop
MinScale(planeName) ==
    IF planeName \in {"A7", "A1", "A2"} THEN Fr(1, 10)
    ELSE IF planeName \in {"K2", "K4"} THEN Fr(1, 20)
    ELSE Fr(1, 1000)

\* a vertical crop that would divide the ratios the wrong way round
VerticalCropInverted(planeName, videoAspectRatio, originalAspectRatio) ==
    Crop(FrOne, FrDiv(originalAspectRatio, videoAspectRatio), FrZero,
         FrHalf(FrSub(FrOne, FrDiv(originalAspectRatio, videoAspectRatio))))

\* the branch of applyUVMapping for a video taller than the plane
VerticalCrop(planeName, videoAspectRatio, originalAspectRatio) ==
    LET heightScale == FrDiv(videoAspectRatio, originalAspectRatio)
        heightOffset == FrHalf(FrSub(FrOne, heightScale))
        actualScale == FrMax(MinScale(planeName), heightScale)
        actualOffset == IF actualScale = MinScale(planeName)
                        THEN FrHalf(FrSub(FrOne, actualScale)) ELSE heightOffset
    IN  Crop(FrOne, actualScale, FrZero, actualOffset)

\* a horizontal crop that would shrink the window on both axes
HorizontalCropBothAxes(videoAspectRatio, originalAspectRatio) ==
    Crop(FrDiv(originalAspectRatio, videoAspectRatio),
         FrDiv(originalAspectRatio, videoAspectRatio),
         FrHalf(FrSub(FrOne, FrDiv(originalAspectRatio, videoAspectRatio))),
         FrHalf(FrSub(FrOne, FrDiv(originalAspectRatio, videoAspectRatio))))

\* the branch of applyUVMapping for a video wider than the plane
HorizontalCrop(videoAspectRatio, originalAspectRatio) ==
    LET widthScale == FrDiv(originalAspectRatio, videoAspectRatio)
        widthOffset == FrHalf(FrSub(FrOne, widthScale))
    IN  Crop(FrMax(Fr(1, 1000), widthScale), FrOne, widthOffset, FrZero)

\* applyUVMapping(videoTexture, planeName, video) for a video of
\* size = << videoWidth, videoHeight >>: the crop it sets on the texture.
\* A size of << 0, 0 >> (media without a video track) makes the ratio NaN,
\* every comparison with it false, and the crop the full texture.
applyUVMapping(planeName, size) ==
    IF planeName \notin PlaneNames THEN IdentityCrop
    ELSE IF size[2] = 0 THEN IdentityCrop
    ELSE LET originalAspectRatio == Fr(ConfigOf(planeName).width, ConfigOf(planeName).height)
             videoAspectRatio == Fr(size[1], size[2])
         IN  IF FrLess(Tolerance, FrAbs(FrSub(videoAspectRatio, originalAspectRatio)))
             THEN IF FrLess(videoAspectRatio, originalAspectRatio)
                  THEN VerticalCrop(planeName, videoAspectRatio, originalAspectRatio)
                  ELSE HorizontalCrop(videoAspectRatio, originalAspectRatio)
             ELSE IdentityCrop

\* the video sizes the loadedmetadata event may report: common formats, the
\* ratios of planes, ratios within and just outside the tolerance of ICE,
\* extreme strips and a source without a video track
MediaSizes ==
    { << 1920, 1080 >>, << 1080, 1920 >>, << 6240, 192 >>, << 4000, 2000 >>,
      << 4100, 2000 >>, << 4300, 2000 >>, << 4096, 2 >>, << 2, 4096 >>, << 0, 0 >> }

\* the size of the video in the behaviours that do not vary it
DefaultSize == << 1920, 1080 >>

\* ---------------------------------------------------------------- materials
\* opacity is counted in hundredths and emissiveIntensity in tenths; a material
\* built without them has the defaults opacity 1, emissive black, intensity 1
\* new MeshPhongMaterial({color, transparent: true, opacity: 0.8, side: DoubleSide})
Tint2D(color) ==
    [kind |-> "color", color |-> color, tex |-> 0, transparent |-> TRUE,
     opacity |-> 80, side |-> "double", emissive |-> 0, emissiveIntensity |-> 10]

\* new MeshPhongMaterial({color, transparent: false, side})
Tint3D(color, side) ==
    [kind |-> "color", color |-> color, tex |-> 0, transparent |-> FALSE,
     opacity |-> 100, side |-> side, emissive |-> 0, emissiveIntensity |-> 10]

\* the material the asset file gives a mesh
Authored ==
    [kind |-> "authored", color |-> 0, tex |-> 0, transparent |-> FALSE,
     opacity |-> 100, side |-> "front", emissive |-> 0, emissiveIntensity |-> 10]

\* applyVideoMaterialToPlane: the material built around the shared texture
VideoMaterial(tex, planeName) ==
    [kind |-> "video", color |-> 16777215, tex |-> tex, transparent |-> TRUE,
     opacity |-> 90,
     side |-> IF planeName = "A7" \/ planeName = "BIG-MAP" THEN "front" ELSE "double",
     emissive |-> 16777215, emissiveIntensity |-> 9]

\* the absent entry of model3DPlanes
NoMesh == << 0, "" >>

\* no run of handleAutoDetectVideos has begun
NoBatch == [matched |-> << >>, index |-> 0, awaiting |-> 0, successCount |-> 0,
            attempts |-> << >>]

\* setupTimelineControls has run: no animation frame requested, no drag
IdleTimeline == [animationFrameId |-> 0, pending |-> {}, isDragging |-> FALSE,
                 timeouts |-> 0]

VARIABLES
    mode,                \* this.mode
    planesVisible,       \* plane.visible of the 2D planes (set together)
    mat2D,               \* plane.material of each 2D plane, by name
    model3D,             \* this.model3D: the id of the asset load, 0 for null
    groupModels,         \* the models that are children of this.group
    modelVisible,        \* model.visible of each model in the group
    meshMat,             \* mesh.material of each mesh <<model, name>>
    model3DPlanes,       \* this.model3DPlanes
    a7Parts,             \* this.a7Parts
    bigMapPlanes,        \* this.bigMapPlanes
    originalMaterials,   \* the keys of this.originalMaterials
    currentModelVersion, \* this.currentModelVersion
    storage,             \* localStorage['arena-model-version'], NoItem for no entry
    assetLoads,          \* the load3DModel calls that reached loadAsync
    videos,              \* every video element created by loadVideoOnPlane; history
                         \* fields: undisturbed (while the load is pending or has
                         \* failed: no load sharing a surface has succeeded and no
                         \* asset load has completed since its call began) and
                         \* boundIn (the mode in which a tracked video was bound,
                         \* kept where switchesDone is recorded)
    videoElements,       \* this.videoElements
    videoTextures,       \* this.videoTextures
    switchesDone,        \* history: progress of completed setMode calls through
                         \* '3d', '2d', '3d' since the bound media last changed;
                         \* -1 in the specifications that do not record it
    scope,               \* the plane names the calls of this behaviour use
    autoDetect,          \* the run of handleAutoDetectVideos: its matchedFiles,
                         \* loop position, awaited video and successCount
    timeline             \* setupTimelineControls: animationFrameId (0 for null),
                         \* the requested animation frames not yet run or
                         \* cancelled, isDragging, the pending setTimeout calls

vars == << mode, planesVisible, mat2D, model3D, groupModels, modelVisible, meshMat,
           model3DPlanes, a7Parts, bigMapPlanes, originalMaterials,
           currentModelVersion, storage, assetLoads, videos, videoElements,
           videoTextures, switchesDone, scope, autoDetect, timeline >>

\* ------------------------------------------------------------------ helpers
Range(s) == { s[i] : i \in DOMAIN s }

\* whether the behaviour may begin one more asynchronous load
MayBegin == Len(videos) + Len(assetLoads) < MaxAsync

\* the meshes of model l, in traversal order
ModelMeshes(l) ==
    [ i \in DOMAIN AssetMeshes(assetLoads[l].version) |->
        << l, AssetMeshes(assetLoads[l].version)[i] >> ]

\* ------------------------------------------------------ clearVideoFromPlane
\* a clear that resets the representative mesh of model3DPlanes alone, as it
\* would without the two composite branches
ClearTargetsRepresentative(planeName) ==
    IF planeName \in Keys3D /\ model3DPlanes[planeName] # NoMesh
    THEN { model3DPlanes[planeName] }
    ELSE {}

\* the 3D meshes clearVideoFromPlane(planeName) gives a new material
ClearTargets3D(planeName) ==
    IF planeName = "A7" /\ Len(a7Parts) > 0 THEN Range(a7Parts)
    ELSE IF planeName = "BIG-MAP" /\ Len(bigMapPlanes) > 0 THEN Range(bigMapPlanes)
    ELSE IF planeName \in Keys3D /\ model3DPlanes[planeName] # NoMesh
         THEN { model3DPlanes[planeName] }
    ELSE {}

\* the material clearVideoFromPlane(planeName) gives those meshes
ClearMaterial3D(planeName) ==
    IF planeName = "A7" /\ Len(a7Parts) > 0 THEN Tint3D(16739179, "front")
    ELSE IF planeName = "BIG-MAP" /\ Len(bigMapPlanes) > 0 THEN Tint3D(5164484, "front")
    ELSE IF planeName \in PlaneNames THEN Tint3D(ConfigColor(planeName), "double")
    ELSE Tint3D(8421504, "double")

\* a clear that would dim the material the plane has instead of building the
\* tint anew from the original colour
DimmedMat2D(planeName) ==
    IF planeName \in PlaneNames
    THEN [mat2D EXCEPT ![planeName] =
            [@ EXCEPT !.kind = "color", !.tex = 0, !.opacity = (@ * 8) \div 10]]
    ELSE mat2D

\* plane.material of the 2D planes after clearVideoFromPlane(planeName)
ClearedMat2D(planeName) ==
    IF planeName \in PlaneNames
    THEN [mat2D EXCEPT ![planeName] = Tint2D(ConfigColor(planeName))]
    ELSE mat2D

\* mesh.material of the 3D meshes after clearVideoFromPlane(planeName)
ClearedMeshMat(planeName) ==
    [ m \in DOMAIN meshMat |->
        IF m \in ClearTargets3D(planeName) THEN ClearMaterial3D(planeName)
        ELSE meshMat[m] ]

\* the video elements after clearVideoFromPlane(planeName) released the tracked
\* ones: paused, object URL revoked, src emptied and reloaded (which puts the
\* playback position back to 0), texture disposed
ReleasedVideos(planeName) ==
    [ i \in DOMAIN videos |->
        [ videos[i] EXCEPT
            !.paused = IF i \in Range(videoElements[planeName]) THEN TRUE ELSE @,
            !.urlLive = IF i \in Range(videoElements[planeName]) THEN FALSE ELSE @,
            !.srcSet = IF i \in Range(videoElements[planeName]) THEN FALSE ELSE @,
            !.boundIn = IF i \in Range(videoElements[planeName]) THEN "" ELSE @,
            !.currentTime = IF i \in Range(videoElements[planeName]) THEN 0 ELSE @,
            !.boundAt = IF i \in Range(videoElements[planeName]) THEN 0 ELSE @,
            !.keyAt = IF i \in Range(videoElements[planeName]) THEN 0 ELSE @,
            !.tex = IF i \in Range(videoTextures[planeName]) THEN "disposed" ELSE @ ] ]

\* the history variable: reset by every change of the bound media
SwitchesAfter(step) ==
    IF step < 0 THEN step
    ELSE IF videoElements' # videoElements THEN 0 ELSE step

\* a clear that releases the videos and keeps the entry of the table
KeptVideos(planeName) == videoElements

\* this.videoElements after this.videoElements.delete(planeName)
UntrackedVideos(planeName) == [videoElements EXCEPT ![planeName] = << >>]

clearVideoFromPlane(planeName) ==
    /\ mat2D' = ClearedMat2D(planeName)
    /\ meshMat' = ClearedMeshMat(planeName)
    /\ videos' = ReleasedVideos(planeName)
    /\ videoElements' = UntrackedVideos(planeName)
    /\ videoTextures' = [videoTextures EXCEPT ![planeName] = << >>]
    /\ switchesDone' = SwitchesAfter(switchesDone)
    /\ UNCHANGED << mode, planesVisible, model3D, groupModels, modelVisible,
                    model3DPlanes, a7Parts, bigMapPlanes, originalMaterials,
                    currentModelVersion, storage, assetLoads, scope, autoDetect, timeline >>

isVideoLoadedOnPlane(planeName) == Len(videoElements[planeName]) > 0

\* getVideoPlaybackInfo().videoCount: this.videoElements.size
videoCount == Cardinality({ n \in BindNames : Len(videoElements[n]) > 0 })

\* ---------------------------------------------------------- loadVideoOnPlane
\* a load that does not clear first: the new video element alone
loadVideoKeepingPrior(planeName, isFile) ==
    /\ MayBegin
    /\ videos' = Append(videos,
                        [name |-> planeName, file |-> isFile, status |-> "pending",
                         paused |-> TRUE, urlLive |-> isFile, srcSet |-> TRUE,
                         tex |-> "none", boundIn |-> "", undisturbed |-> TRUE,
                         currentTime |-> 0, events |-> {},
                         size |-> << 0, 0 >>, crop |-> IdentityCrop,
                         boundAt |-> 0, keyAt |-> 0,
                         muted |-> TRUE, volume |-> 100])
    /\ UNCHANGED << mode, planesVisible, mat2D, model3D, groupModels, modelVisible,
                    meshMat, model3DPlanes, a7Parts, bigMapPlanes, originalMaterials,
                    currentModelVersion, storage, assetLoads, videoElements,
                    videoTextures, switchesDone, scope, autoDetect, timeline >>

\* the call up to its await: clear, then a new video element whose load starts
loadVideoOnPlaneCall(planeName, isFile) ==
    /\ mat2D' = ClearedMat2D(planeName)
    /\ meshMat' = ClearedMeshMat(planeName)
    /\ videos' = Append(ReleasedVideos(planeName),
                        [name |-> planeName, file |-> isFile, status |-> "pending",
                         paused |-> TRUE, urlLive |-> isFile, srcSet |-> TRUE,
                         tex |-> "none", boundIn |-> "", undisturbed |-> TRUE,
                         currentTime |-> 0, events |-> {},
                         size |-> << 0, 0 >>, crop |-> IdentityCrop,
                         boundAt |-> 0, keyAt |-> 0,
                         muted |-> TRUE, volume |-> 100])
    /\ videoElements' = UntrackedVideos(planeName)
    /\ videoTextures' = [videoTextures EXCEPT ![planeName] = << >>]
    /\ switchesDone' = SwitchesAfter(switchesDone)
    /\ UNCHANGED << mode, planesVisible, model3D, groupModels, modelVisible,
                    model3DPlanes, a7Parts, bigMapPlanes, originalMaterials,
                    currentModelVersion, storage, assetLoads, scope >>

\* the call, in the behaviours that count it with the asset loads
loadVideoOnPlane(planeName, isFile) ==
    /\ MayBegin
    /\ loadVideoOnPlaneCall(planeName, isFile)
    /\ UNCHANGED << autoDetect, timeline >>

\* the 3D meshes loadVideoOnPlane(planeName) gives the video material
ApplyTargets3D(planeName) ==
    IF planeName = "A7" /\ Len(a7Parts) > 0 THEN Range(a7Parts)
    ELSE IF planeName = "BIG-MAP" /\ Len(bigMapPlanes) > 0 THEN Range(bigMapPlanes)
    ELSE IF planeName \in Keys3D /\ model3DPlanes[planeName] # NoMesh
         THEN { model3DPlanes[planeName] }
    ELSE {}

\* the local variable success of loadVideoOnPlane
ApplySuccess(planeName) ==
    planeName \in PlaneNames \/ ApplyTargets3D(planeName) # {}

\* what loadVideoOnPlane stores when success is true: [video]
TrackedAfterLoad(planeName, v) == << v >>

\* whether two plane names have a surface in common: the mesh A9 is the surface
\* of the catalog plane A9 and a part of BIG-MAP
Overlaps(a, b) == a = b \/ { a, b } = { "BIG-MAP", "A9" }

\* history: the number of the next videoElements.set among those whose video
\* is still tracked
NextBind ==
    LET tracked == { i \in DOMAIN videos : \E n \in DOMAIN videoElements :
                                               i \in Range(videoElements[n]) }
    IN  IF tracked = {} THEN 1
        ELSE 1 + (CHOOSE b \in { videos[i].boundAt : i \in tracked } :
                      \A i \in tracked : videos[i].boundAt <= b)

\* the place of the key planeName among the keys of this.videoElements after
\* this.videoElements.set(planeName, [video]): a Map keeps its keys in the
\* order of their insertion, and setting a key that is present keeps its place
KeyPlace(planeName) ==
    IF Len(videoElements[planeName]) > 0
    THEN videos[videoElements[planeName][1]].keyAt
    ELSE NextBind

\* the continuation of loadVideoOnPlane after the loadedmetadata event of
\* video v, which reports the size of the video: one shared texture, cropped
\* by applyUVMapping, applied to the 2D plane and the 3D meshes
onLoadedMetadataOfSize(v, size) ==
    /\ v \in DOMAIN videos
    /\ videos[v].status = "pending"
    /\ LET planeName == videos[v].name
           success == ApplySuccess(planeName)
       IN  /\ mat2D' = IF planeName \in PlaneNames
                       THEN [mat2D EXCEPT ![planeName] = VideoMaterial(v, planeName)]
                       ELSE mat2D
           /\ meshMat' = [ m \in DOMAIN meshMat |->
                            IF m \in ApplyTargets3D(planeName)
                            THEN VideoMaterial(v, planeName) ELSE meshMat[m] ]
           /\ videos' = [ i \in DOMAIN videos |->
                            IF i = v
                            THEN [videos[i] EXCEPT
                                     !.tex = "live",
                                     !.status = IF success THEN "bound" ELSE "unplaced",
                                     !.boundIn = IF success /\ switchesDone >= 0 THEN mode ELSE "",
                                     !.undisturbed = TRUE,
                                     !.events = {"loadstart", "loadedmetadata"},
                                     !.boundAt = IF success THEN NextBind ELSE 0,
                                     !.keyAt = IF success THEN KeyPlace(planeName) ELSE 0,
                                     !.size = size,
                                     !.crop = applyUVMapping(planeName, size)]
                            ELSE IF /\ success
                                    /\ videos[i].status = "pending"
                                    /\ Overlaps(videos[i].name, planeName)
                            THEN [videos[i] EXCEPT !.undisturbed = FALSE]
                            ELSE videos[i] ]
           /\ videoElements' = IF success
                               THEN [videoElements EXCEPT ![planeName] = TrackedAfterLoad(planeName, v)]
                               ELSE videoElements
           /\ videoTextures' = IF success
                               THEN [videoTextures EXCEPT ![planeName] = << v >>]
                               ELSE videoTextures
    /\ switchesDone' = SwitchesAfter(switchesDone)
    /\ UNCHANGED << mode, planesVisible, model3D, groupModels, modelVisible,
                    model3DPlanes, a7Parts, bigMapPlanes, originalMaterials,
                    currentModelVersion, storage, assetLoads, scope, autoDetect, timeline >>

\* the loadedmetadata event of a video of the default size
onLoadedMetadata(v) == onLoadedMetadataOfSize(v, DefaultSize)

\* the continuation after the error event of video v: resolve(false), return false
onError(v) ==
    /\ v \in DOMAIN videos
    /\ videos[v].status = "pending"
    /\ videos' = [videos EXCEPT ![v].status = "failed", ![v].events = @ \cup {"error"}]
    /\ UNCHANGED << mode, planesVisible, mat2D, model3D, groupModels, modelVisible,
                    meshMat, model3DPlanes, a7Parts, bigMapPlanes, originalMaterials,
                    currentModelVersion, storage, assetLoads, videoElements,
                    videoTextures, switchesDone, scope, autoDetect, timeline >>

\* the value loadVideoOnPlane resolved to for video v
LoadResult(v) == videos[v].status = "bound"

\* a load that would take the loadstart event for the end of the load and
\* give the 2D plane the video material
onLoadStartResolving(v) ==
    /\ v \in DOMAIN videos
    /\ videos[v].status = "pending"
    /\ "loadstart" \notin videos[v].events
    /\ mat2D' = IF videos[v].name \in PlaneNames
                THEN [mat2D EXCEPT ![videos[v].name] = VideoMaterial(v, videos[v].name)]
                ELSE mat2D
    /\ videos' = [videos EXCEPT ![v].events = @ \cup {"loadstart"},
                                ![v].status = "bound", ![v].tex = "live"]
    /\ videoElements' = [videoElements EXCEPT ![videos[v].name] = << v >>]
    /\ videoTextures' = [videoTextures EXCEPT ![videos[v].name] = << v >>]
    /\ UNCHANGED << mode, planesVisible, model3D, groupModels, modelVisible,
                    meshMat, model3DPlanes, a7Parts, bigMapPlanes, originalMaterials,
                    currentModelVersion, storage, assetLoads, switchesDone, scope, autoDetect, timeline >>

\* the loadstart event of video v, the first sign that the source is being
\* fetched: loadVideoOnPlane registered no listener for it
onLoadStart(v) ==
    /\ v \in DOMAIN videos
    /\ videos[v].status = "pending"
    /\ "loadstart" \notin videos[v].events
    /\ videos' = [videos EXCEPT ![v].events = @ \cup {"loadstart"}]
    /\ UNCHANGED << mode, planesVisible, mat2D, model3D, groupModels, modelVisible,
                    meshMat, model3DPlanes, a7Parts, bigMapPlanes, originalMaterials,
                    currentModelVersion, storage, assetLoads, videoElements,
                    videoTextures, switchesDone, scope, autoDetect, timeline >>

\* ------------------------------------------------------------- transport
\* playAllVideos: every tracked video that is paused and has a source plays
PlayedVideos ==
    [ i \in DOMAIN videos |->
        IF /\ \E n \in BindNames : i \in Range(videoElements[n])
           /\ videos[i].paused
           /\ videos[i].srcSet
           /\ (videos[i].file => videos[i].urlLive)
        THEN [videos[i] EXCEPT !.paused = FALSE] ELSE videos[i] ]

playAllVideos ==
    /\ videos' = PlayedVideos
    /\ UNCHANGED << mode, planesVisible, mat2D, model3D, groupModels, modelVisible,
                    meshMat, model3DPlanes, a7Parts, bigMapPlanes, originalMaterials,
                    currentModelVersion, storage, assetLoads, videoElements,
                    videoTextures, switchesDone, scope, autoDetect, timeline >>

\* pauseAllVideos: every tracked video is paused
pauseAllVideos ==
    /\ videos' = [ i \in DOMAIN videos |->
                    IF \E n \in BindNames : i \in Range(videoElements[n])
                    THEN [videos[i] EXCEPT !.paused = TRUE] ELSE videos[i] ]
    /\ UNCHANGED << mode, planesVisible, mat2D, model3D, groupModels, modelVisible,
                    meshMat, model3DPlanes, a7Parts, bigMapPlanes, originalMaterials,
                    currentModelVersion, storage, assetLoads, videoElements,
                    videoTextures, switchesDone, scope, autoDetect, timeline >>

\* video.duration of a video whose metadata has loaded, in seconds; 0 stands
\* for a duration that is not known (NaN). The sources of the model are a
\* file of FileDuration seconds and the URL of a stream without a duration.
Duration(i) == IF videos[i].file THEN FileDuration ELSE 0

\* the video elements in the arrays of this.videoElements
TrackedIds == { i \in DOMAIN videos : \E n \in BindNames : i \in Range(videoElements[n]) }

\* a transport loop whose first failure ends the call: no try/catch in the body
ActedUntilFailure(F) == { i \in TrackedIds : \A j \in F : i < j }

\* the video elements on which the body of a transport loop runs to its end,
\* when the calls on the elements of F throw: each throw is caught inside the
\* loop body and the loop goes on
Acted(F) == TrackedIds \ F

\* the video elements after pauseAllVideos, when video.pause() throws on the
\* elements of F
PausedVideos(F) ==
    [ i \in DOMAIN videos |->
        IF i \in Acted(F) THEN [videos[i] EXCEPT !.paused = TRUE] ELSE videos[i] ]

pauseAllVideosCatching(F) ==
    /\ F \subseteq TrackedIds
    /\ videos' = PausedVideos(F)
    /\ UNCHANGED << mode, planesVisible, mat2D, model3D, groupModels, modelVisible,
                    meshMat, model3DPlanes, a7Parts, bigMapPlanes, originalMaterials,
                    currentModelVersion, storage, assetLoads, videoElements,
                    videoTextures, switchesDone, scope, autoDetect, timeline >>

\* the video elements after stopAndRewindAllVideos, when video.pause() throws
\* on the elements of F
RewoundVideos(F) ==
    [ i \in DOMAIN videos |->
        IF i \in Acted(F)
        THEN [videos[i] EXCEPT !.paused = TRUE, !.currentTime = 0]
        ELSE videos[i] ]

stopAndRewindAllVideos(F) ==
    /\ F \subseteq TrackedIds
    /\ videos' = RewoundVideos(F)
    /\ UNCHANGED << mode, planesVisible, mat2D, model3D, groupModels, modelVisible,
                    meshMat, model3DPlanes, a7Parts, bigMapPlanes, originalMaterials,
                    currentModelVersion, storage, assetLoads, videoElements,
                    videoTextures, switchesDone, scope, autoDetect, timeline >>

\* video.currentTime after seekAllVideos(percentage) acted on video i
SoughtTime(i, percentage) ==
    IF Duration(i) # 0 THEN (percentage * Duration(i)) \div 100
    ELSE videos[i].currentTime

\* the video elements after seekAllVideos(percentage), when the assignment
\* throws on the elements of F
SoughtVideos(percentage, F) ==
    [ i \in DOMAIN videos |->
        IF i \in Acted(F)
        THEN [videos[i] EXCEPT !.currentTime = SoughtTime(i, percentage)]
        ELSE videos[i] ]

seekAllVideos(percentage, F) ==
    /\ F \subseteq TrackedIds
    /\ videos' = SoughtVideos(percentage, F)
    /\ UNCHANGED << mode, planesVisible, mat2D, model3D, groupModels, modelVisible,
                    meshMat, model3DPlanes, a7Parts, bigMapPlanes, originalMaterials,
                    currentModelVersion, storage, assetLoads, videoElements,
                    videoTextures, switchesDone, scope, autoDetect, timeline >>

\* !referenceVideo.paused && !referenceVideo.ended: loadVideoOnPlane sets
\* video.loop, and the playback of a looping video never ends
IsPlaying(i) == ~videos[i].paused

\* a reference that would be the video bound first among the tracked ones
FirstBoundVideo ==
    CHOOSE i \in TrackedIds : \A j \in TrackedIds : videos[i].boundAt <= videos[j].boundAt

\* allVideos[0]: the video of the first key of this.videoElements
referenceVideo ==
    CHOOSE i \in TrackedIds : \A j \in TrackedIds : videos[i].keyAt <= videos[j].keyAt

\* getVideoPlaybackInfo(); a duration that is not known (NaN) is reported as 0
getVideoPlaybackInfo ==
    IF TrackedIds = {}
    THEN [currentTime |-> 0, duration |-> 0, isPlaying |-> FALSE, videoCount |-> 0]
    ELSE [currentTime |-> videos[referenceVideo].currentTime,
          duration |-> Duration(referenceVideo),
          isPlaying |-> IsPlaying(referenceVideo),
          videoCount |-> videoCount]

\* ------------------------------------------------------------------ audio
\* setPlaneAudio(planeName, muted): every video of the plane; nothing for a
\* plane without videos
setPlaneAudio(planeName, muted) ==
    /\ videos' = [ i \in DOMAIN videos |->
                    IF i \in Range(videoElements[planeName])
                    THEN [videos[i] EXCEPT !.muted = muted] ELSE videos[i] ]
    /\ UNCHANGED << mode, planesVisible, mat2D, model3D, groupModels, modelVisible,
                    meshMat, model3DPlanes, a7Parts, bigMapPlanes, originalMaterials,
                    currentModelVersion, storage, assetLoads, videoElements,
                    videoTextures, switchesDone, scope, autoDetect, timeline >>

\* the volumes a caller passes, in hundredths: below, in and above [0, 1]
Volumes == { -50, 40, 150 }

\* Math.max(0, Math.min(1, volume)), in hundredths
clampedVolume(volume) ==
    LET least == IF volume < 100 THEN volume ELSE 100
    IN  IF least > 0 THEN least ELSE 0

\* a volume change that would not look at the muted flag
VolumeSetOnAll(volume) ==
    [ i \in DOMAIN videos |->
        IF i \in TrackedIds
        THEN [videos[i] EXCEPT !.volume = clampedVolume(volume)] ELSE videos[i] ]

\* the video elements after setGlobalVolume(volume)
VolumeSet(volume) ==
    [ i \in DOMAIN videos |->
        IF i \in TrackedIds /\ ~videos[i].muted
        THEN [videos[i] EXCEPT !.volume = clampedVolume(volume)] ELSE videos[i] ]

setGlobalVolume(volume) ==
    /\ videos' = VolumeSet(volume)
    /\ UNCHANGED << mode, planesVisible, mat2D, model3D, groupModels, modelVisible,
                    meshMat, model3DPlanes, a7Parts, bigMapPlanes, originalMaterials,
                    currentModelVersion, storage, assetLoads, videoElements,
                    videoTextures, switchesDone, scope, autoDetect, timeline >>

\* ------------------------------------------------- handleAutoDetectVideos
\* the orders of matchedFiles: a Map from plane name to file, in the order in
\* which the files were matched
MatchedFiles ==
    { << >> } \cup { << n >> : n \in scope }
              \cup ({ << n, m >> : n, m \in scope } \ { << n, n >> : n \in scope })

\* the loop has gone through matchedFiles and the summary is shown
Finished == autoDetect.index > Len(autoDetect.matched)

\* a loop that would end at the first load that did not return true
IndexEndingAtFailure(success) ==
    IF success THEN autoDetect.index + 1 ELSE Len(autoDetect.matched) + 1

\* the position of the for...of loop after an iteration: the try block ends,
\* with success or without, or the catch block ends
IndexAfterAttempt(success) == autoDetect.index + 1

\* handleAutoDetectVideos(files), up to the first iteration of the loop
handleAutoDetectVideos(matched) ==
    /\ autoDetect.index = 0 \/ Finished
    /\ Len(videos) + Len(assetLoads) + Len(matched) <= MaxAsync
    /\ autoDetect' = [matched |-> matched, index |-> 1, awaiting |-> 0,
                      successCount |-> 0, attempts |-> << >>]
    /\ UNCHANGED << mode, planesVisible, mat2D, model3D, groupModels, modelVisible,
                    meshMat, model3DPlanes, a7Parts, bigMapPlanes, originalMaterials,
                    currentModelVersion, storage, assetLoads, videos, videoElements,
                    videoTextures, switchesDone, scope, timeline >>

\* an iteration up to its await: the call of loadVideoOnPlane(planeName, file)
autoDetectLoad ==
    /\ autoDetect.index >= 1 /\ ~Finished /\ autoDetect.awaiting = 0
    /\ loadVideoOnPlaneCall(autoDetect.matched[autoDetect.index], TRUE)
    /\ autoDetect' = [autoDetect EXCEPT !.awaiting = Len(videos) + 1]
    /\ UNCHANGED timeline

\* an iteration whose call of loadVideoOnPlane throws before it changes
\* anything: the catch block, then the next iteration
autoDetectThrown ==
    /\ autoDetect.index >= 1 /\ ~Finished /\ autoDetect.awaiting = 0
    /\ autoDetect' = [autoDetect EXCEPT !.index = IndexAfterAttempt(FALSE),
                                        !.attempts = Append(@, 0)]
    /\ UNCHANGED << mode, planesVisible, mat2D, model3D, groupModels, modelVisible,
                    meshMat, model3DPlanes, a7Parts, bigMapPlanes, originalMaterials,
                    currentModelVersion, storage, assetLoads, videos, videoElements,
                    videoTextures, switchesDone, scope, timeline >>

\* the rest of an iteration, after the awaited load returned success
autoDetectResumed ==
    /\ autoDetect.awaiting # 0
    /\ videos[autoDetect.awaiting].status # "pending"
    /\ autoDetect' = [autoDetect EXCEPT
                         !.index = IndexAfterAttempt(LoadResult(autoDetect.awaiting)),
                         !.awaiting = 0,
                         !.successCount = IF LoadResult(autoDetect.awaiting)
                                          THEN @ + 1 ELSE @,
                         !.attempts = Append(@, autoDetect.awaiting)]
    /\ UNCHANGED << mode, planesVisible, mat2D, model3D, groupModels, modelVisible,
                    meshMat, model3DPlanes, a7Parts, bigMapPlanes, originalMaterials,
                    currentModelVersion, storage, assetLoads, videos, videoElements,
                    videoTextures, switchesDone, scope, timeline >>

\* ------------------------------------------------- setupTimelineControls
\* info.isPlaying && info.videoCount > 0, for the video elements vs: the
\* reference video is not paused
Looping(vs) == TrackedIds # {} /\ ~vs[referenceVideo].paused

\* the id requestAnimationFrame returns: one that no pending request has
FrameId(t) == CHOOSE id \in 1 .. MaxFrames : id \notin t.pending

\* whether one more frame may be requested in this behaviour
MayRequest(t, vs) == Looping(vs) => Cardinality(t.pending) < MaxFrames

\* updateTimelineDisplay(), for the video elements vs: the display is
\* updated, and a frame is requested while the videos play
updateTimelineDisplay(t, vs) ==
    IF Looping(vs)
    THEN [t EXCEPT !.animationFrameId = FrameId(t), !.pending = @ \cup { FrameId(t) }]
    ELSE [t EXCEPT !.animationFrameId = 0]

\* cancelAnimationFrame(animationFrameId); animationFrameId = null
Cancelled(t) ==
    IF t.animationFrameId # 0
    THEN [t EXCEPT !.pending = @ \ { t.animationFrameId }, !.animationFrameId = 0]
    ELSE t

\* the click handler of the play button
playClick ==
    /\ timeline.animationFrameId = 0 => MayRequest(timeline, PlayedVideos)
    /\ videos' = PlayedVideos
    /\ timeline' = IF timeline.animationFrameId = 0
                   THEN updateTimelineDisplay(timeline, PlayedVideos)
                   ELSE timeline
    /\ UNCHANGED << mode, planesVisible, mat2D, model3D, groupModels, modelVisible,
                    meshMat, model3DPlanes, a7Parts, bigMapPlanes, originalMaterials,
                    currentModelVersion, storage, assetLoads, videoElements,
                    videoTextures, switchesDone, scope, autoDetect >>

\* the click handler of the pause button
pauseClick ==
    /\ videos' = PausedVideos({})
    /\ timeline' = Cancelled(timeline)
    /\ UNCHANGED << mode, planesVisible, mat2D, model3D, groupModels, modelVisible,
                    meshMat, model3DPlanes, a7Parts, bigMapPlanes, originalMaterials,
                    currentModelVersion, storage, assetLoads, videoElements,
                    videoTextures, switchesDone, scope, autoDetect >>

\* the click handler of the stop button: it ends with setTimeout(updateTimelineDisplay, 100)
stopClick ==
    /\ timeline.timeouts < MaxFrames
    /\ videos' = RewoundVideos({})
    /\ timeline' = [Cancelled(timeline) EXCEPT !.timeouts = @ + 1]
    /\ UNCHANGED << mode, planesVisible, mat2D, model3D, groupModels, modelVisible,
                    meshMat, model3DPlanes, a7Parts, bigMapPlanes, originalMaterials,
                    currentModelVersion, storage, assetLoads, videoElements,
                    videoTextures, switchesDone, scope, autoDetect >>

\* the timeout of the stop button fires
onTimeout ==
    /\ timeline.timeouts > 0
    /\ MayRequest(timeline, videos)
    /\ timeline' = updateTimelineDisplay([timeline EXCEPT !.timeouts = @ - 1], videos)
    /\ UNCHANGED << mode, planesVisible, mat2D, model3D, groupModels, modelVisible,
                    meshMat, model3DPlanes, a7Parts, bigMapPlanes, originalMaterials,
                    currentModelVersion, storage, assetLoads, videos, videoElements,
                    videoTextures, switchesDone, scope, autoDetect >>

\* the tick of setInterval(updateTimelineDisplay, 1000)
onInterval ==
    /\ MayRequest(timeline, videos)
    /\ timeline' = updateTimelineDisplay(timeline, videos)
    /\ UNCHANGED << mode, planesVisible, mat2D, model3D, groupModels, modelVisible,
                    meshMat, model3DPlanes, a7Parts, bigMapPlanes, originalMaterials,
                    currentModelVersion, storage, assetLoads, videos, videoElements,
                    videoTextures, switchesDone, scope, autoDetect >>

\* the browser runs the requested frame id: updateTimelineDisplay is its callback
onAnimationFrame(id) ==
    /\ id \in timeline.pending
    /\ timeline' = updateTimelineDisplay([timeline EXCEPT !.pending = @ \ { id }], videos)
    /\ UNCHANGED << mode, planesVisible, mat2D, model3D, groupModels, modelVisible,
                    meshMat, model3DPlanes, a7Parts, bigMapPlanes, originalMaterials,
                    currentModelVersion, storage, assetLoads, videos, videoElements,
                    videoTextures, switchesDone, scope, autoDetect >>

\* mousedown on the track: isDragging = true; handleSeek
onMouseDown(percentage) ==
    /\ videos' = SoughtVideos(percentage, {})
    /\ timeline' = [timeline EXCEPT !.isDragging = TRUE]
    /\ UNCHANGED << mode, planesVisible, mat2D, model3D, groupModels, modelVisible,
                    meshMat, model3DPlanes, a7Parts, bigMapPlanes, originalMaterials,
                    currentModelVersion, storage, assetLoads, videoElements,
                    videoTextures, switchesDone, scope, autoDetect >>

\* mousemove: handleSeek while dragging
onMouseMove(percentage) ==
    /\ timeline.isDragging
    /\ videos' = SoughtVideos(percentage, {})
    /\ UNCHANGED timeline
    /\ UNCHANGED << mode, planesVisible, mat2D, model3D, groupModels, modelVisible,
                    meshMat, model3DPlanes, a7Parts, bigMapPlanes, originalMaterials,
                    currentModelVersion, storage, assetLoads, videoElements,
                    videoTextures, switchesDone, scope, autoDetect >>

\* mouseup while dragging: the updates resume if the videos play and no frame
\* is recorded as requested
onMouseUp ==
    /\ timeline.isDragging
    /\ timeline' = IF Looping(videos) /\ timeline.animationFrameId = 0
                   THEN updateTimelineDisplay([timeline EXCEPT !.isDragging = FALSE], videos)
                   ELSE [timeline EXCEPT !.isDragging = FALSE]
    /\ UNCHANGED << mode, planesVisible, mat2D, model3D, groupModels, modelVisible,
                    meshMat, model3DPlanes, a7Parts, bigMapPlanes, originalMaterials,
                    currentModelVersion, storage, assetLoads, videos, videoElements,
                    videoTextures, switchesDone, scope, autoDetect >>

\* ------------------------------------------------------------ mode and asset
\* show2DMode: planes visible, the current model hidden
show2DMode ==
    /\ planesVisible' = TRUE
    /\ modelVisible' = [ l \in DOMAIN modelVisible |->
                          IF l = model3D THEN FALSE ELSE modelVisible[l] ]

\* after the '3d', '2d', '3d' progress s, a completed setMode(m)
SwitchStep(s, m) ==
    IF s < 0 THEN s
    ELSE IF m = "3d" THEN (IF s = 2 THEN 3 ELSE 1)
    ELSE (IF s = 1 \/ s = 3 THEN 2 ELSE 0)

\* a load3DModel call that found model3D null and awaits loadAsync
StartedLoad(caller, version) ==
    Append(assetLoads, [version |-> version, caller |-> caller,
                        state |-> "pending"])

\* a settling that would report every outcome to the caller as a loaded model
SettledAsLoaded(version, state) == [version |-> version, caller |-> "", state |-> "loaded"]

\* a settled load: the promise is gone, what stays is the model (with the version
\* of its file) or nothing
Settled(version, state) == [version |-> version, caller |-> "", state |-> state]

\* setMode(m); with m = '3d' and no model it ends at the await of load3DModel
setMode(m) ==
    /\ IF mode = m
       THEN /\ UNCHANGED << mode, planesVisible, modelVisible, assetLoads >>
            /\ switchesDone' = SwitchStep(switchesDone, m)
       ELSE IF m = "2d"
       THEN /\ mode' = "2d"
            /\ show2DMode
            /\ UNCHANGED assetLoads
            /\ switchesDone' = SwitchStep(switchesDone, m)
       ELSE IF model3D # 0
       THEN /\ mode' = "3d"
            /\ planesVisible' = FALSE
            /\ modelVisible' = [modelVisible EXCEPT ![model3D] = TRUE]
            /\ UNCHANGED assetLoads
            /\ switchesDone' = SwitchStep(switchesDone, m)
       ELSE /\ MayBegin
            /\ mode' = "3d"
            /\ assetLoads' = StartedLoad("setMode", currentModelVersion)
            /\ UNCHANGED << planesVisible, modelVisible, switchesDone >>
    /\ UNCHANGED << mat2D, model3D, groupModels, meshMat, model3DPlanes, a7Parts,
                    bigMapPlanes, originalMaterials, currentModelVersion, storage,
                    videos, videoElements, videoTextures, scope, autoDetect, timeline >>

\* saveModelVersionToStorage: the entry after it; writable is false when
\* localStorage.setItem throws, which is caught and logged
saveModelVersionToStorage(version, writable) ==
    IF writable THEN toString(version) ELSE storage

\* setModelVersion(version): save, tear the model down, reload in 3D mode;
\* writable tells whether the store accepts the write
setModelVersion(version, writable) ==
    IF currentModelVersion = version
    THEN UNCHANGED vars
    ELSE /\ mode = "3d" => MayBegin
         /\ currentModelVersion' = version
         /\ storage' = saveModelVersionToStorage(version, writable)
         /\ IF model3D # 0
            THEN /\ groupModels' = groupModels \ { model3D }
                 /\ model3D' = 0
                 /\ model3DPlanes' = [ k \in Keys3D |-> NoMesh ]
                 /\ a7Parts' = << >>
                 /\ bigMapPlanes' = << >>
                 /\ originalMaterials' = {}
                 /\ modelVisible' = [ l \in groupModels \ { model3D } |-> modelVisible[l] ]
                 /\ meshMat' = [ m \in { x \in DOMAIN meshMat : x[1] # model3D } |-> meshMat[m] ]
            ELSE UNCHANGED << groupModels, model3D, model3DPlanes, a7Parts, bigMapPlanes,
                              originalMaterials, modelVisible, meshMat >>
         /\ assetLoads' = IF mode = "3d" THEN StartedLoad("setModelVersion", version) ELSE assetLoads
         /\ UNCHANGED << mode, planesVisible, mat2D, videos, videoElements,
                         videoTextures, switchesDone, scope, autoDetect, timeline >>

\* a classification that would carry the tracked media of a plane onto the
\* meshes of a newly loaded asset
ClassifiedCarryingMedia(name) ==
    LET planeName == IF IsA7Part(name) THEN "A7" ELSE name
    IN  IF planeName \in BindNames /\ videoTextures[planeName] # << >>
        THEN VideoMaterial(videoTextures[planeName][1], planeName)
        ELSE IF IsA7Part(name) THEN Tint3D(16739179, "front")
        ELSE IF IsBigMapPart(name) THEN Tint3D(5164484, "front")
        ELSE IF IsCeiling(name) THEN Tint3D(15790320, "double")
        ELSE IF name \in {"K2 inner", "K4 inner", "Skeptrons", "Skeptrons_Inside",
                          "Skeptrons_Outside"}
             THEN Tint3D(0, "double")
        ELSE Authored

\* the material load3DModel leaves on a mesh of the given name
ClassifiedMaterial(name) ==
    IF IsA7Part(name) THEN Tint3D(16739179, "front")
    ELSE IF IsBigMapPart(name) THEN Tint3D(5164484, "front")
    ELSE IF IsCeiling(name) THEN Tint3D(15790320, "double")
    ELSE IF name \in {"K2 inner", "K4 inner", "Skeptrons", "Skeptrons_Inside",
                      "Skeptrons_Outside"}
         THEN Tint3D(0, "double")
    ELSE Authored

\* whether load3DModel does model3DPlanes.set(name, mesh) for a mesh of that name
RegistersPlane(name) ==
    IsBigMapPart(name) \/ name \in PlaneNames \/ name \in {"K2", "K4"}

\* the body of load3DModel after loadAsync of load l resolved, followed by the
\* show3DMode of its caller (constructor, setMode or setModelVersion)
load3DModelResolved(l) ==
    /\ l \in DOMAIN assetLoads
    /\ assetLoads[l].state = "pending"
    /\ LET meshes == ModelMeshes(l)
           parts7 == a7Parts \o SelectSeq(meshes, LAMBDA m : IsA7Part(m[2]))
       IN  /\ model3D' = l
           /\ meshMat' = [ m \in DOMAIN meshMat \cup Range(meshes) |->
                            IF m \in Range(meshes) THEN ClassifiedMaterial(m[2])
                            ELSE meshMat[m] ]
           /\ originalMaterials' = originalMaterials \cup Range(meshes)
           /\ a7Parts' = parts7
           /\ bigMapPlanes' = bigMapPlanes \o SelectSeq(meshes, LAMBDA m : IsBigMapPart(m[2]))
           /\ model3DPlanes' =
                [ k \in Keys3D |->
                    IF k = "A7" /\ Len(parts7) > 0 THEN parts7[1]
                    ELSE IF << l, k >> \in Range(meshes) /\ RegistersPlane(k) THEN << l, k >>
                    ELSE model3DPlanes[k] ]
           /\ groupModels' = groupModels \cup { l }
           /\ planesVisible' = FALSE
           /\ modelVisible' = [ x \in groupModels \cup { l } |->
                                 IF x = l THEN TRUE ELSE modelVisible[x] ]
    /\ assetLoads' = [assetLoads EXCEPT ![l] = Settled(assetLoads[l].version, "loaded")]
    /\ switchesDone' = IF assetLoads[l].caller = "setMode"
                       THEN SwitchStep(switchesDone, "3d") ELSE switchesDone
    /\ videos' = [ i \in DOMAIN videos |->
                    IF videos[i].status = "pending"
                    THEN [videos[i] EXCEPT !.undisturbed = FALSE] ELSE videos[i] ]
    /\ UNCHANGED << mode, mat2D, currentModelVersion, storage, videoElements,
                    videoTextures, scope, autoDetect, timeline >>

\* loadAsync of load l rejected: load3DModel rethrows; the constructor logs it,
\* setMode and setModelVersion reject
load3DModelRejected(l) ==
    /\ l \in DOMAIN assetLoads
    /\ assetLoads[l].state = "pending"
    /\ assetLoads' = [assetLoads EXCEPT ![l] = Settled(0, "failed")]
    /\ switchesDone' = IF assetLoads[l].caller = "setMode" /\ switchesDone > 0
                       THEN 0 ELSE switchesDone
    /\ UNCHANGED << mode, planesVisible, mat2D, model3D, groupModels, modelVisible,
                    meshMat, model3DPlanes, a7Parts, bigMapPlanes, originalMaterials,
                    currentModelVersion, storage, videos, videoElements, videoTextures, scope, autoDetect, timeline >>

\* ------------------------------------------------------------ highlighting
\* isSpecialPlane(meshName)
isSpecialPlane(meshName) == IsA7Part(meshName) \/ IsBigMapPart(meshName)

\* emissiveIntensity = 1.0 and opacity = 1.0 on the material of a mesh
Emphasized(mat) == [mat EXCEPT !.emissiveIntensity = 10, !.opacity = 100]

\* emissiveIntensity = 0.1 and opacity = Math.min(opacity, 0.4)
Dimmed(mat) ==
    [mat EXCEPT !.emissiveIntensity = 1,
                !.opacity = IF @ < 40 THEN @ ELSE 40]

\* the meshes highlightPlane(planeName) emphasizes: the parts of a composite,
\* else the meshes of the current model with that very name
EmphasizedMeshes(planeName) ==
    IF planeName = "A7" /\ Len(a7Parts) > 0 THEN Range(a7Parts)
    ELSE IF planeName = "BIG-MAP" /\ Len(bigMapPlanes) > 0 THEN Range(bigMapPlanes)
    ELSE { m \in DOMAIN meshMat : m[1] = model3D /\ m[2] = planeName }

\* the meshes of the current model that highlightPlane(planeName) dims
DimmedMeshes(planeName) ==
    IF planeName = "A7" /\ Len(a7Parts) > 0
    THEN { m \in DOMAIN meshMat :
             /\ m[1] = model3D
             /\ (~isSpecialPlane(m[2]) \/ m \in Range(bigMapPlanes)) }
    ELSE IF planeName = "BIG-MAP" /\ Len(bigMapPlanes) > 0
    THEN { m \in DOMAIN meshMat : m[1] = model3D /\ m \notin Range(bigMapPlanes) }
    ELSE { m \in DOMAIN meshMat : m[1] = model3D /\ m[2] # planeName }

\* the materials of the 2D planes after the first loop of highlightPlane
HighlightedMat2D(planeName) ==
    [ n \in DOMAIN mat2D |->
        IF n = planeName
        THEN [mat2D[n] EXCEPT !.opacity = 100, !.emissive = 2236962]
        ELSE [mat2D[n] EXCEPT !.opacity = 30, !.emissive = 0] ]

\* the materials of the meshes after highlightPlane
HighlightedMeshMat(planeName) ==
    IF model3D = 0 THEN meshMat
    ELSE [ m \in DOMAIN meshMat |->
             IF m \in DimmedMeshes(planeName) THEN Dimmed(meshMat[m])
             ELSE IF m \in EmphasizedMeshes(planeName)
             THEN Emphasized(meshMat[m])
             ELSE meshMat[m] ]

\* highlightPlane(planeName): the 2D planes, then the meshes when a model is set
highlightPlane(planeName) ==
    /\ mat2D' = HighlightedMat2D(planeName)
    /\ meshMat' = HighlightedMeshMat(planeName)
    /\ UNCHANGED << mode, planesVisible, model3D, groupModels, modelVisible,
                    model3DPlanes, a7Parts, bigMapPlanes, originalMaterials,
                    currentModelVersion, storage, assetLoads, videos, videoElements,
                    videoTextures, switchesDone, scope, autoDetect, timeline >>

\* the material of a mesh after resetHighlight: a material with map and
\* emissiveMap is taken for a video material
ResetMaterial(mat) ==
    IF mat.kind = "video"
    THEN [mat EXCEPT !.emissiveIntensity = 9, !.opacity = 90]
    ELSE [mat EXCEPT !.emissiveIntensity = 0, !.opacity = 100]

\* the material of a 2D plane after resetHighlight: originalOpacity || 0.8
\* and no glow
ResetPlane(mat) == [mat EXCEPT !.opacity = 80, !.emissive = 0]

\* resetHighlight() applied to materials of the 2D planes, and to materials of
\* the meshes: it changes those of the current model
ResetMat2D(planes) == [ n \in DOMAIN planes |-> ResetPlane(planes[n]) ]

ResetMeshMat(meshes) ==
    [ m \in DOMAIN meshes |->
        IF m[1] = model3D THEN ResetMaterial(meshes[m]) ELSE meshes[m] ]

resetHighlight ==
    /\ mat2D' = ResetMat2D(mat2D)
    /\ meshMat' = ResetMeshMat(meshMat)
    /\ UNCHANGED << mode, planesVisible, model3D, groupModels, modelVisible,
                    model3DPlanes, a7Parts, bigMapPlanes, originalMaterials,
                    currentModelVersion, storage, assetLoads, videos, videoElements,
                    videoTextures, switchesDone, scope, autoDetect, timeline >>

\* ------------------------------------------------------------ specification
\* the state the constructor leaves: no stored version, default version 3,
\* the 2D planes built with their tint, mode '3d' and the first asset load begun
Init ==
    /\ mode = "3d"
    /\ planesVisible = TRUE
    /\ mat2D = [ n \in PlaneNames |-> Tint2D(ConfigColor(n)) ]
    /\ model3D = 0
    /\ groupModels = {}
    /\ modelVisible = [ l \in {} |-> FALSE ]
    /\ meshMat = [ m \in {} |-> Authored ]
    /\ model3DPlanes = [ k \in Keys3D |-> NoMesh ]
    /\ a7Parts = << >>
    /\ bigMapPlanes = << >>
    /\ originalMaterials = {}
    /\ currentModelVersion = 3
    /\ storage = NoItem
    /\ assetLoads = << [version |-> 3, caller |-> "constructor", state |-> "pending"] >>
    /\ videos = << >>
    /\ videoElements = [ n \in BindNames |-> << >> ]
    /\ videoTextures = [ n \in BindNames |-> << >> ]
    /\ switchesDone = -1
    /\ scope \in { { n } : n \in BindNames \ MeshOnlyNames }
    /\ autoDetect = NoBatch
    /\ timeline = IdleTimeline

\* the plane operations, the transport and the mode switch, with the model
\* version left as the constructor found it
NextPlanes ==
    \/ \E n \in scope, f \in BOOLEAN : loadVideoOnPlane(n, f)
    \/ \E v \in DOMAIN videos : onLoadedMetadata(v)
    \/ \E v \in DOMAIN videos : onError(v)
    \/ \E n \in scope : clearVideoFromPlane(n)
    \/ playAllVideos
    \/ pauseAllVideos
    \/ \E m \in {"2d", "3d"} : setMode(m)
    \/ \E l \in DOMAIN assetLoads : load3DModelResolved(l)
    \/ \E l \in DOMAIN assetLoads : load3DModelRejected(l)

Next ==
    \/ \E n \in scope, f \in BOOLEAN : loadVideoOnPlane(n, f)
    \/ \E v \in DOMAIN videos : onLoadedMetadata(v)
    \/ \E v \in DOMAIN videos : onError(v)
    \/ \E n \in scope : clearVideoFromPlane(n)
    \/ playAllVideos
    \/ pauseAllVideos
    \/ \E m \in {"2d", "3d"} : setMode(m)
    \/ \E v \in Versions : setModelVersion(v, TRUE)
    \/ \E l \in DOMAIN assetLoads : load3DModelResolved(l)
    \/ \E l \in DOMAIN assetLoads : load3DModelRejected(l)

Spec == Init /\ [][Next]_vars

SpecPlanes == Init /\ [][NextPlanes]_vars

\* as Init, with the history of completed mode switches recorded
InitSwitches ==
    /\ mode = "3d"
    /\ planesVisible = TRUE
    /\ mat2D = [ n \in PlaneNames |-> Tint2D(ConfigColor(n)) ]
    /\ model3D = 0
    /\ groupModels = {}
    /\ modelVisible = [ l \in {} |-> FALSE ]
    /\ meshMat = [ m \in {} |-> Authored ]
    /\ model3DPlanes = [ k \in Keys3D |-> NoMesh ]
    /\ a7Parts = << >>
    /\ bigMapPlanes = << >>
    /\ originalMaterials = {}
    /\ currentModelVersion = 3
    /\ storage = NoItem
    /\ assetLoads = << [version |-> 3, caller |-> "constructor", state |-> "pending"] >>
    /\ videos = << >>
    /\ videoElements = [ n \in BindNames |-> << >> ]
    /\ videoTextures = [ n \in BindNames |-> << >> ]
    /\ switchesDone = 0
    /\ scope \in { { n } : n \in BindNames \ MeshOnlyNames }
    /\ autoDetect = NoBatch
    /\ timeline = IdleTimeline

SpecSwitches == InitSwitches /\ [][Next]_vars

\* as Init, with the calls of the behaviour using the composite BIG-MAP and the
\* catalog plane A9, whose mesh is one of the parts of BIG-MAP
InitOverlap ==
    /\ mode = "3d"
    /\ planesVisible = TRUE
    /\ mat2D = [ n \in PlaneNames |-> Tint2D(ConfigColor(n)) ]
    /\ model3D = 0
    /\ groupModels = {}
    /\ modelVisible = [ l \in {} |-> FALSE ]
    /\ meshMat = [ m \in {} |-> Authored ]
    /\ model3DPlanes = [ k \in Keys3D |-> NoMesh ]
    /\ a7Parts = << >>
    /\ bigMapPlanes = << >>
    /\ originalMaterials = {}
    /\ currentModelVersion = 3
    /\ storage = NoItem
    /\ assetLoads = << [version |-> 3, caller |-> "constructor", state |-> "pending"] >>
    /\ videos = << >>
    /\ videoElements = [ n \in BindNames |-> << >> ]
    /\ videoTextures = [ n \in BindNames |-> << >> ]
    /\ switchesDone = -1
    /\ scope = {"BIG-MAP", "A9"}
    /\ autoDetect = NoBatch
    /\ timeline = IdleTimeline

SpecOverlap == InitOverlap /\ [][NextPlanes]_vars

\* as Init, with the calls of the behaviour using a mesh-only name
InitMeshName ==
    /\ mode = "3d"
    /\ planesVisible = TRUE
    /\ mat2D = [ n \in PlaneNames |-> Tint2D(ConfigColor(n)) ]
    /\ model3D = 0
    /\ groupModels = {}
    /\ modelVisible = [ l \in {} |-> FALSE ]
    /\ meshMat = [ m \in {} |-> Authored ]
    /\ model3DPlanes = [ k \in Keys3D |-> NoMesh ]
    /\ a7Parts = << >>
    /\ bigMapPlanes = << >>
    /\ originalMaterials = {}
    /\ currentModelVersion = 3
    /\ storage = NoItem
    /\ assetLoads = << [version |-> 3, caller |-> "constructor", state |-> "pending"] >>
    /\ videos = << >>
    /\ videoElements = [ n \in BindNames |-> << >> ]
    /\ videoTextures = [ n \in BindNames |-> << >> ]
    /\ switchesDone = -1
    /\ scope \in { { n } : n \in MeshOnlyNames }
    /\ autoDetect = NoBatch
    /\ timeline = IdleTimeline

SpecMeshName == InitMeshName /\ [][NextPlanes]_vars

\* as Init, with the calls of the behaviour using two plane names, so that
\* the transport finds two tracked video elements
InitTransport ==
    /\ mode = "3d"
    /\ planesVisible = TRUE
    /\ mat2D = [ n \in PlaneNames |-> Tint2D(ConfigColor(n)) ]
    /\ model3D = 0
    /\ groupModels = {}
    /\ modelVisible = [ l \in {} |-> FALSE ]
    /\ meshMat = [ m \in {} |-> Authored ]
    /\ model3DPlanes = [ k \in Keys3D |-> NoMesh ]
    /\ a7Parts = << >>
    /\ bigMapPlanes = << >>
    /\ originalMaterials = {}
    /\ currentModelVersion = 3
    /\ storage = NoItem
    /\ assetLoads = << [version |-> 3, caller |-> "constructor", state |-> "pending"] >>
    /\ videos = << >>
    /\ videoElements = [ n \in BindNames |-> << >> ]
    /\ videoTextures = [ n \in BindNames |-> << >> ]
    /\ switchesDone = -1
    /\ scope = {"A7", "ICE"}
    /\ autoDetect = NoBatch
    /\ timeline = IdleTimeline

\* the binds, the clear and the four transport operations, while the
\* constructor's asset load is pending
NextTransport ==
    \/ \E n \in scope, f \in BOOLEAN : loadVideoOnPlane(n, f)
    \/ \E v \in DOMAIN videos : onLoadedMetadata(v)
    \/ \E n \in scope : clearVideoFromPlane(n)
    \/ playAllVideos
    \/ \E F \in SUBSET TrackedIds : pauseAllVideosCatching(F)
    \/ \E F \in SUBSET TrackedIds : stopAndRewindAllVideos(F)
    \/ \E p \in Percentages, F \in SUBSET TrackedIds : seekAllVideos(p, F)

SpecTransport == InitTransport /\ [][NextTransport]_vars

\* binds, clears and the transport on two plane names while the constructor's
\* asset load stays pending: the bound counts the video loads alone
NextPlayback ==
    \/ \E n \in scope, f \in BOOLEAN :
          /\ Len(videos) < MaxAsync
          /\ loadVideoOnPlaneCall(n, f)
          /\ UNCHANGED << autoDetect, timeline >>
    \/ \E v \in DOMAIN videos : onLoadedMetadata(v)
    \/ \E n \in scope : clearVideoFromPlane(n)
    \/ playAllVideos
    \/ pauseAllVideos
    \/ \E p \in Percentages : seekAllVideos(p, {})

SpecPlayback == InitTransport /\ [][NextPlayback]_vars

\* binds, play, the muting of a plane and the global volume
NextAudio ==
    \/ \E n \in scope : loadVideoOnPlane(n, TRUE)
    \/ \E v \in DOMAIN videos : onLoadedMetadata(v)
    \/ playAllVideos
    \/ \E n \in scope, m \in BOOLEAN : setPlaneAudio(n, m)
    \/ \E volume \in Volumes : setGlobalVolume(volume)

SpecAudio == InitTransport /\ [][NextAudio]_vars

\* the batch of handleAutoDetectVideos on two plane names, the events of its
\* loads, and a clear by the user in between
NextAutoDetect ==
    \/ \E matched \in MatchedFiles : handleAutoDetectVideos(matched)
    \/ autoDetectLoad
    \/ autoDetectThrown
    \/ autoDetectResumed
    \/ \E v \in DOMAIN videos : onLoadedMetadata(v)
    \/ \E v \in DOMAIN videos : onError(v)
    \/ \E n \in scope : clearVideoFromPlane(n)

SpecAutoDetect == InitTransport /\ [][NextAutoDetect]_vars

\* as Init, with the calls of the behaviour using the composite A7
InitVersion ==
    /\ mode = "3d"
    /\ planesVisible = TRUE
    /\ mat2D = [ n \in PlaneNames |-> Tint2D(ConfigColor(n)) ]
    /\ model3D = 0
    /\ groupModels = {}
    /\ modelVisible = [ l \in {} |-> FALSE ]
    /\ meshMat = [ m \in {} |-> Authored ]
    /\ model3DPlanes = [ k \in Keys3D |-> NoMesh ]
    /\ a7Parts = << >>
    /\ bigMapPlanes = << >>
    /\ originalMaterials = {}
    /\ currentModelVersion = 3
    /\ storage = NoItem
    /\ assetLoads = << [version |-> 3, caller |-> "constructor", state |-> "pending"] >>
    /\ videos = << >>
    /\ videoElements = [ n \in BindNames |-> << >> ]
    /\ videoTextures = [ n \in BindNames |-> << >> ]
    /\ switchesDone = -1
    /\ scope = {"A7"}
    /\ autoDetect = NoBatch
    /\ timeline = IdleTimeline

\* the binds of video files, the clear, the mode switch and the version change
NextVersion ==
    \/ \E n \in scope : loadVideoOnPlane(n, TRUE)
    \/ \E v \in DOMAIN videos : onLoadedMetadata(v)
    \/ \E n \in scope : clearVideoFromPlane(n)
    \/ \E m \in {"2d", "3d"} : setMode(m)
    \/ \E v \in Versions : setModelVersion(v, TRUE)
    \/ \E l \in DOMAIN assetLoads : load3DModelResolved(l)

SpecVersion == InitVersion /\ [][NextVersion]_vars

\* the timeline controls with file videos bound to A7: the clicks, the drag,
\* the interval tick, the timeout and the frame callbacks
NextTimeline ==
    \/ \E n \in scope : loadVideoOnPlane(n, TRUE)
    \/ \E v \in DOMAIN videos : onLoadedMetadata(v)
    \/ playClick
    \/ pauseClick
    \/ stopClick
    \/ onTimeout
    \/ onInterval
    \/ \E id \in timeline.pending : onAnimationFrame(id)
    \/ \E p \in Percentages : onMouseDown(p)
    \/ \E p \in Percentages : onMouseMove(p)
    \/ onMouseUp

SpecTimeline == InitVersion /\ [][NextTimeline]_vars

\* as Init, with the mode switch, the version change and both outcomes of
\* loadAsync, and no plane operation but the bind of A7
InitAsset ==
    /\ mode = "3d"
    /\ planesVisible = TRUE
    /\ mat2D = [ n \in PlaneNames |-> Tint2D(ConfigColor(n)) ]
    /\ model3D = 0
    /\ groupModels = {}
    /\ modelVisible = [ l \in {} |-> FALSE ]
    /\ meshMat = [ m \in {} |-> Authored ]
    /\ model3DPlanes = [ k \in Keys3D |-> NoMesh ]
    /\ a7Parts = << >>
    /\ bigMapPlanes = << >>
    /\ originalMaterials = {}
    /\ currentModelVersion = 3
    /\ storage = NoItem
    /\ assetLoads = << [version |-> 3, caller |-> "constructor", state |-> "pending"] >>
    /\ videos = << >>
    /\ videoElements = [ n \in BindNames |-> << >> ]
    /\ videoTextures = [ n \in BindNames |-> << >> ]
    /\ switchesDone = -1
    /\ scope = {"A7"}
    /\ autoDetect = NoBatch
    /\ timeline = IdleTimeline

NextAsset ==
    \/ \E n \in scope : loadVideoOnPlane(n, TRUE)
    \/ \E v \in DOMAIN videos : onLoadedMetadata(v)
    \/ \E m \in {"2d", "3d"} : setMode(m)
    \/ \E v \in Versions : setModelVersion(v, TRUE)
    \/ \E l \in DOMAIN assetLoads : load3DModelResolved(l)
    \/ \E l \in DOMAIN assetLoads : load3DModelRejected(l)

SpecAsset == InitAsset /\ [][NextAsset]_vars

\* the state a constructor leaves when the store holds any of StoredValues
InitStartup ==
    /\ mode = "3d"
    /\ planesVisible = TRUE
    /\ mat2D = [ n \in PlaneNames |-> Tint2D(ConfigColor(n)) ]
    /\ model3D = 0
    /\ groupModels = {}
    /\ modelVisible = [ l \in {} |-> FALSE ]
    /\ meshMat = [ m \in {} |-> Authored ]
    /\ model3DPlanes = [ k \in Keys3D |-> NoMesh ]
    /\ a7Parts = << >>
    /\ bigMapPlanes = << >>
    /\ originalMaterials = {}
    /\ storage \in StoredValues
    /\ \E readable \in BOOLEAN :
          currentModelVersion = loadModelVersionFromStorage(storage, readable)
    /\ assetLoads = << [version |-> currentModelVersion, caller |-> "constructor",
                        state |-> "pending"] >>
    /\ videos = << >>
    /\ videoElements = [ n \in BindNames |-> << >> ]
    /\ videoTextures = [ n \in BindNames |-> << >> ]
    /\ switchesDone = -1
    /\ scope = {"A7"}
    /\ autoDetect = NoBatch
    /\ timeline = IdleTimeline

\* the page is loaded again: a new Arena is constructed over the same store
constructor(readable) ==
    /\ mode' = "3d"
    /\ planesVisible' = TRUE
    /\ mat2D' = [ n \in PlaneNames |-> Tint2D(ConfigColor(n)) ]
    /\ model3D' = 0
    /\ groupModels' = {}
    /\ modelVisible' = [ l \in {} |-> FALSE ]
    /\ meshMat' = [ m \in {} |-> Authored ]
    /\ model3DPlanes' = [ k \in Keys3D |-> NoMesh ]
    /\ a7Parts' = << >>
    /\ bigMapPlanes' = << >>
    /\ originalMaterials' = {}
    /\ currentModelVersion' = loadModelVersionFromStorage(storage, readable)
    /\ assetLoads' = << [version |-> loadModelVersionFromStorage(storage, readable),
                         caller |-> "constructor", state |-> "pending"] >>
    /\ videos' = << >>
    /\ videoElements' = [ n \in BindNames |-> << >> ]
    /\ videoTextures' = [ n \in BindNames |-> << >> ]
    /\ UNCHANGED << storage, switchesDone, scope, autoDetect, timeline >>

\* the version change with a store that may refuse the write, the asset
\* loads and the reload of the page
NextStartup ==
    \/ \E v \in Versions, writable \in BOOLEAN : setModelVersion(v, writable)
    \/ \E l \in DOMAIN assetLoads : load3DModelResolved(l)
    \/ \E l \in DOMAIN assetLoads : load3DModelRejected(l)
    \/ \E readable \in BOOLEAN : constructor(readable)

SpecStartup == InitStartup /\ [][NextStartup]_vars

\* the names of the plane legend used by a behaviour that highlights
HighlightNames == {"A7", "A9", "BIG-MAP", "ICE"}

\* as Init, with binds and clears on the composite A7 and highlights of the
\* legend entries
InitHighlight ==
    /\ mode = "3d"
    /\ planesVisible = TRUE
    /\ mat2D = [ n \in PlaneNames |-> Tint2D(ConfigColor(n)) ]
    /\ model3D = 0
    /\ groupModels = {}
    /\ modelVisible = [ l \in {} |-> FALSE ]
    /\ meshMat = [ m \in {} |-> Authored ]
    /\ model3DPlanes = [ k \in Keys3D |-> NoMesh ]
    /\ a7Parts = << >>
    /\ bigMapPlanes = << >>
    /\ originalMaterials = {}
    /\ currentModelVersion = 3
    /\ storage = NoItem
    /\ assetLoads = << [version |-> 3, caller |-> "constructor", state |-> "pending"] >>
    /\ videos = << >>
    /\ videoElements = [ n \in BindNames |-> << >> ]
    /\ videoTextures = [ n \in BindNames |-> << >> ]
    /\ switchesDone = -1
    /\ scope = {"A7"}
    /\ autoDetect = NoBatch
    /\ timeline = IdleTimeline

NextHighlight ==
    \/ \E n \in scope : loadVideoOnPlane(n, TRUE)
    \/ \E v \in DOMAIN videos : onLoadedMetadata(v)
    \/ \E n \in scope : clearVideoFromPlane(n)
    \/ \E l \in DOMAIN assetLoads : load3DModelResolved(l)
    \/ \E n \in HighlightNames : highlightPlane(n)
    \/ resetHighlight

SpecHighlight == InitHighlight /\ [][NextHighlight]_vars

\* as Init, with the media events of a load told apart: loadstart,
\* loadedmetadata and error
InitMedia ==
    /\ mode = "3d"
    /\ planesVisible = TRUE
    /\ mat2D = [ n \in PlaneNames |-> Tint2D(ConfigColor(n)) ]
    /\ model3D = 0
    /\ groupModels = {}
    /\ modelVisible = [ l \in {} |-> FALSE ]
    /\ meshMat = [ m \in {} |-> Authored ]
    /\ model3DPlanes = [ k \in Keys3D |-> NoMesh ]
    /\ a7Parts = << >>
    /\ bigMapPlanes = << >>
    /\ originalMaterials = {}
    /\ currentModelVersion = 3
    /\ storage = NoItem
    /\ assetLoads = << [version |-> 3, caller |-> "constructor", state |-> "pending"] >>
    /\ videos = << >>
    /\ videoElements = [ n \in BindNames |-> << >> ]
    /\ videoTextures = [ n \in BindNames |-> << >> ]
    /\ switchesDone = -1
    /\ scope \in { {"A7"}, {"ICE"} }
    /\ autoDetect = NoBatch
    /\ timeline = IdleTimeline

NextMedia ==
    \/ \E n \in scope, f \in BOOLEAN : loadVideoOnPlane(n, f)
    \/ \E v \in DOMAIN videos : onLoadStart(v)
    \/ \E v \in DOMAIN videos : onLoadedMetadata(v)
    \/ \E v \in DOMAIN videos : onError(v)
    \/ \E n \in scope : clearVideoFromPlane(n)
    \/ \E l \in DOMAIN assetLoads : load3DModelResolved(l)

SpecMedia == InitMedia /\ [][NextMedia]_vars

\* as Init, with the calls of the behaviour using any one name of the
\* catalog or the mesh-only name A0, and videos of every size of MediaSizes
InitCrop ==
    /\ mode = "3d"
    /\ planesVisible = TRUE
    /\ mat2D = [ n \in PlaneNames |-> Tint2D(ConfigColor(n)) ]
    /\ model3D = 0
    /\ groupModels = {}
    /\ modelVisible = [ l \in {} |-> FALSE ]
    /\ meshMat = [ m \in {} |-> Authored ]
    /\ model3DPlanes = [ k \in Keys3D |-> NoMesh ]
    /\ a7Parts = << >>
    /\ bigMapPlanes = << >>
    /\ originalMaterials = {}
    /\ currentModelVersion = 3
    /\ storage = NoItem
    /\ assetLoads = << [version |-> 3, caller |-> "constructor", state |-> "pending"] >>
    /\ videos = << >>
    /\ videoElements = [ n \in BindNames \cup PlaneNames |-> << >> ]
    /\ videoTextures = [ n \in BindNames \cup PlaneNames |-> << >> ]
    /\ switchesDone = -1
    /\ scope \in { { n } : n \in PlaneNames \cup {"A0"} }
    /\ autoDetect = NoBatch
    /\ timeline = IdleTimeline

\* binds of video files and their loadedmetadata events, while the
\* constructor's asset load is pending
NextCrop ==
    \/ \E n \in scope : loadVideoOnPlane(n, TRUE)
    \/ \E v \in DOMAIN videos, size \in MediaSizes : onLoadedMetadataOfSize(v, size)

SpecCrop == InitCrop /\ [][NextCrop]_vars

\* ------------------------------------------------------------- properties
\* the 3D meshes registered for plane name n: the parts of a composite and
\* the entry of model3DPlanes
Registered3D(n) ==
    (IF n = "A7" THEN Range(a7Parts)
     ELSE IF n = "BIG-MAP" THEN Range(bigMapPlanes) ELSE {})
    \cup (IF n \in Keys3D /\ model3DPlanes[n] # NoMesh THEN { model3DPlanes[n] } ELSE {})

\* material mat displays the texture of video v
Shows(mat, v) == mat.kind = "video" /\ mat.tex = v

\* material mat is the flat fallback colour of plane name n
IsFallback(mat, n) ==
    /\ mat.kind = "color"
    /\ mat.tex = 0
    /\ mat.color = ConfigColor(n)

\* every surface registered for n, 2D and 3D, displays the texture of video v
DisplayedEverywhere(n, v) ==
    /\ n \in PlaneNames => Shows(mat2D[n], v)
    /\ \A m \in Registered3D(n) : Shows(meshMat[m], v)

\* every surface registered for n, 2D and 3D, has the fallback tint
FallbackEverywhere(n) ==
    /\ n \in PlaneNames => mat2D[n] = Tint2D(ConfigColor(n))
    /\ \A m \in Registered3D(n) : IsFallback(meshMat[m], n)

\* video i is released: paused, its object URL revoked, its texture not live
Released(i) ==
    /\ videos[i].paused
    /\ ~videos[i].urlLive
    /\ videos[i].tex # "live"

\* video i is the media tracked for its plane name
IsTracked(i) ==
    /\ videoElements[videos[i].name] = << i >>
    /\ videoTextures[videos[i].name] = << i >>

\* C1: last bind wins. Whenever two loads of the same plane name have both
\* resolved with success, the later call being the last load begun for the
\* name and its video not released by a clear, the plane tracks the later
\* call's video and its surfaces display that video's texture.
LastBindWins ==
    \A i, j \in DOMAIN videos :
        ( /\ i < j
          /\ videos[i].name = videos[j].name
          /\ videos[i].status = "bound"
          /\ videos[j].status = "bound"
          /\ videos[j].srcSet
          /\ \A k \in DOMAIN videos : k > j => videos[k].name # videos[j].name )
        => /\ videoElements[videos[j].name] = << j >>
           /\ DisplayedEverywhere(videos[j].name, j)

\* C2: in every state, a plane name that tracks media displays the texture of
\* that media on its 2D plane and on every 3D mesh registered for it, the
\* meshes registered by a later asset load included.
BoundMediaOnEverySurface ==
    \A n \in BindNames :
        isVideoLoadedOnPlane(n) => DisplayedEverywhere(n, videoElements[n][1])

\* C3: no media is leaked. Every video element loadVideoOnPlane created, once
\* its load has settled, is the one tracked for its plane name or is released.
NoMediaLeak ==
    \A i \in DOMAIN videos :
        videos[i].status # "pending" => IsTracked(i) \/ Released(i)

BoundMediaSurvivesSwitches ==
    switchesDone = 3 =>
        \A n \in BindNames :
            isVideoLoadedOnPlane(n) =>
                \A m \in Registered3D(n) : Shows(meshMat[m], videoElements[n][1])

\* a setMode('3d') call completes: at once when a model is resident, else when
\* the asset load it began resolves
SetMode3dCompletes ==
    \/ mode = "2d" /\ model3D # 0 /\ setMode("3d")
    \/ \E l \in DOMAIN assetLoads :
          assetLoads[l].caller = "setMode" /\ load3DModelResolved(l)

\* C6: setMode re-applies bound media. When a setMode('3d') call completes,
\* every plane name whose tracked media was bound in 2D mode displays that
\* media on each of its 3D meshes.
SetModeReappliesMedia ==
    [][ SetMode3dCompletes =>
          \A n \in BindNames :
              ( /\ isVideoLoadedOnPlane(n)
                /\ videos[videoElements[n][1]].boundIn = "2d" )
              => \A m \in Registered3D(n)' : Shows(meshMat'[m], videoElements[n][1]) ]_vars

\* C7: the visible presentation matches the mode. In every state with no
\* asset load pending (no setMode, setModelVersion or initial load in
\* flight), mode '2d' has the 2D planes visible and no model visible, and
\* mode '3d' has the 2D planes hidden and the resident model visible.
ModeMatchesVisibility ==
    (\A l \in DOMAIN assetLoads : assetLoads[l].state # "pending") =>
        /\ mode = "2d" =>
             /\ planesVisible
             /\ \A l \in groupModels : ~modelVisible[l]
        /\ mode = "3d" =>
             /\ ~planesVisible
             /\ model3D \in groupModels
             /\ modelVisible[model3D]

\* C8: at most one 3D asset is resident. In every state the group holds at
\* most one model and the classification tables hold meshes of this.model3D
\* alone.
AtMostOneAssetResident ==
    /\ Cardinality(groupModels) <= 1
    /\ \A m \in Range(a7Parts) \cup Range(bigMapPlanes)
                \cup ({ model3DPlanes[k] : k \in Keys3D } \ { NoMesh }) :
          model3D # 0 /\ m[1] = model3D

\* C9: bind, then clear. A clearVideoFromPlane(n) of a plane name that tracks
\* media leaves isVideoLoadedOnPlane(n) false, videoCount 0 when no other
\* plane name tracks media, and the fallback tint on every surface of n.
ClearAfterBindLeavesNothing ==
    [][ \A n \in scope :
          (isVideoLoadedOnPlane(n) /\ clearVideoFromPlane(n)) =>
            /\ ~isVideoLoadedOnPlane(n)'
            /\ (\A o \in BindNames \ { n } : ~isVideoLoadedOnPlane(o)) => videoCount' = 0
            /\ FallbackEverywhere(n)' ]_vars

\* C9 witness: a video was bound on a plane with 3D meshes and then cleared;
\* nothing is tracked and the surfaces have the fallback tint.
BoundThenCleared ==
    \E v \in DOMAIN videos :
        /\ Len(videos) = 1
        /\ videos[v].status = "bound"
        /\ videos[v].tex = "disposed"
        /\ ~isVideoLoadedOnPlane(videos[v].name)
        /\ videoCount = 0
        /\ Registered3D(videos[v].name) # {}
        /\ FallbackEverywhere(videos[v].name)

\* C10: clearVideoFromPlane(n) releases every video and texture tracked for n
\* (paused, object URL revoked, source emptied, texture disposed), untracks
\* them, and leaves the fallback tint on the 2D plane and on every 3D mesh
\* registered for n, all parts of A7 and BIG-MAP included, in either mode.
ClearReleasesAndResets ==
    [][ \A n \in scope :
          clearVideoFromPlane(n) =>
            /\ \A i \in Range(videoElements[n]) :
                  /\ videos'[i].paused
                  /\ ~videos'[i].urlLive
                  /\ ~videos'[i].srcSet
            /\ \A i \in Range(videoTextures[n]) : videos'[i].tex = "disposed"
            /\ videoElements'[n] = << >>
            /\ videoTextures'[n] = << >>
            /\ n \in PlaneNames => mat2D'[n] = Tint2D(ConfigColor(n))
            /\ \A m \in Registered3D(n)' :
                  /\ IsFallback(meshMat'[m], n)
                  /\ n \in {"A7", "BIG-MAP"} =>
                        meshMat'[m] = Tint3D(ConfigColor(n), "front") ]_vars

\* C10 witness: in 2D mode a file video bound to a composite plane with both
\* parts registered has been cleared; it is released and every part is flat.
CompositeClearedIn2D ==
    \E v \in DOMAIN videos :
        /\ mode = "2d"
        /\ videos[v].name \in {"A7", "BIG-MAP"}
        /\ videos[v].file
        /\ videos[v].status = "bound"
        /\ videos[v].tex = "disposed"
        /\ ~videos[v].urlLive
        /\ videoElements[videos[v].name] = << >>
        /\ Cardinality(Registered3D(videos[v].name)) = 2
        /\ FallbackEverywhere(videos[v].name)

\* materials a and b display the same content: the same video texture, or the
\* same kind of material in the same colour
SameLook(a, b) == a.kind = b.kind /\ a.tex = b.tex /\ a.color = b.color

\* C11: clearVideoFromPlane(n) changes only the materials and the media of n.
\* It leaves model3DPlanes, a7Parts and bigMapPlanes unchanged, and for every
\* other plane name it leaves the tracked media, the 2D material and what
\* each registered 3D mesh displays unchanged.
ClearTouchesOnlyItsPlane ==
    [][ \A n \in scope :
          clearVideoFromPlane(n) =>
            /\ UNCHANGED << model3DPlanes, a7Parts, bigMapPlanes >>
            /\ \A o \in BindNames \ { n } :
                  /\ videoElements'[o] = videoElements[o]
                  /\ videoTextures'[o] = videoTextures[o]
                  /\ o \in PlaneNames => mat2D'[o] = mat2D[o]
                  /\ \A m \in Registered3D(o) : SameLook(meshMat'[m], meshMat[m]) ]_vars

\* C12: a load on a name that is not in the plane catalog reports failure and
\* is a no-op. Every video loaded on such a name, the mesh-only names
\* included, never resolves to true, is never tracked, and is displayed by
\* no 2D plane and no 3D mesh.
UnknownNameNeverBinds ==
    \A i \in DOMAIN videos :
        videos[i].name \notin PlaneNames =>
            /\ ~LoadResult(i)
            /\ ~isVideoLoadedOnPlane(videos[i].name)
            /\ \A n \in PlaneNames : ~Shows(mat2D[n], i)
            /\ \A m \in DOMAIN meshMat : ~Shows(meshMat[m], i)

\* C13: a composite plane acts as one unit. In every state all part meshes
\* of A7 display the same content and all part meshes of BIG-MAP display the
\* same content, whatever other plane names were bound or cleared.
CompositeActsAsOneUnit ==
    \A c \in {"A7", "BIG-MAP"} :
        \A m1, m2 \in Registered3D(c) : SameLook(meshMat[m1], meshMat[m2])

\* C14: one media handle per plane. In every state each plane name that
\* tracks media tracks exactly one video element and the one texture made
\* from it, and every surface registered for the name that displays a video
\* displays that texture, so that the transport moves all of them together.
OneHandlePerPlane ==
    \A n \in BindNames :
        isVideoLoadedOnPlane(n) =>
            /\ Len(videoElements[n]) = 1
            /\ videoTextures[n] = videoElements[n]
            /\ (n \in PlaneNames /\ mat2D[n].kind = "video") =>
                  mat2D[n].tex = videoElements[n][1]
            /\ \A m \in Registered3D(n) :
                  meshMat[m].kind = "video" => meshMat[m].tex = videoElements[n][1]

ReplaceKeepsPriorMedia ==
    [][ \A n \in scope, f \in BOOLEAN :
          (isVideoLoadedOnPlane(n) /\ loadVideoOnPlane(n, f)) =>
            /\ (n \in PlaneNames /\ Shows(mat2D[n], videoElements[n][1])) =>
                  Shows(mat2D'[n], videoElements[n][1])
            /\ \A m \in Registered3D(n) :
                  Shows(meshMat[m], videoElements[n][1]) =>
                      Shows(meshMat'[m], videoElements[n][1]) ]_vars

\* C17: the geometry keeps the physical aspect ratio. For every 2D plane
\* that createPlanes built, width / height of its geometry equals
\* config.width / config.height, also where the floor of 0.5 is applied.
GeometryKeepsRatio ==
    \A n \in DOMAIN mat2D :
        PlaneGeometry(n).width * ConfigOf(n).height
            = PlaneGeometry(n).height * ConfigOf(n).width

\* model l is hidden or absent before the step and visible in the scene after it
BecomesVisible(l) ==
    /\ l \in groupModels' /\ modelVisible'[l]
    /\ ~(l \in groupModels /\ modelVisible[l])

\* C18: 3D surfaces never become visible before the asset has been resolved.
\* Whenever a step makes a 3D model visible, that model is the loaded asset of
\* the current version and every mesh of it has been classified.
VisibleOnlyWhenResolved ==
    [][\A l \in DOMAIN assetLoads :
          BecomesVisible(l) =>
              /\ assetLoads'[l].state = "loaded"
              /\ assetLoads'[l].version = currentModelVersion'
              /\ Range(ModelMeshes(l)) \subseteq originalMaterials']_vars

\* the step classifies the meshes of model l: the traverse of load3DModel
Classifies(l) == model3D' = l /\ model3D # l

\* no model in the scene and nothing in the four classification tables
TornDown ==
    /\ groupModels = {}
    /\ \A k \in Keys3D : model3DPlanes[k] = NoMesh
    /\ a7Parts = << >>
    /\ bigMapPlanes = << >>
    /\ originalMaterials = {}

\* C19: setModelVersion with the current version is a no-op, and with another
\* version it tears down before the new version is classified. A step tears
\* the model down or begins a load for setModelVersion only when it changes
\* the version; and when a step classifies the meshes of an asset of a
\* version set by setModelVersion, the previous model is out of the scene
\* and model3DPlanes, a7Parts, bigMapPlanes and originalMaterials are empty.
TeardownBeforeClassify ==
    [][/\ (model3D # 0 /\ model3D' = 0) => currentModelVersion' # currentModelVersion
       /\ ( /\ Len(assetLoads') > Len(assetLoads)
            /\ assetLoads'[Len(assetLoads')].caller = "setModelVersion" )
              => currentModelVersion' # currentModelVersion
       /\ \A l \in DOMAIN assetLoads :
             ( /\ Classifies(l)
               /\ assetLoads[l].caller = "setModelVersion" )
                 => TornDown]_vars

\* C20: a version change does not clear and does not carry video onto the new
\* asset. The call of setModelVersion and the step that completes it leave
\* videoElements, videoTextures and the 2D materials as they were; when it
\* completes no mesh of the new asset shows a video; and a mesh comes to show
\* a video only in the step in which a load of that video resolves.
VersionChangeCarriesNoMedia ==
    [][/\ ( \/ currentModelVersion' # currentModelVersion
            \/ \E l \in DOMAIN assetLoads :
                  Classifies(l) /\ assetLoads[l].caller = "setModelVersion" )
              => /\ videoElements' = videoElements
                 /\ videoTextures' = videoTextures
                 /\ mat2D' = mat2D
       /\ \A l \in DOMAIN assetLoads :
             ( Classifies(l) /\ assetLoads[l].caller = "setModelVersion" )
                => \A m \in Range(ModelMeshes(l)) : meshMat'[m].kind # "video"
       /\ \A m \in DOMAIN meshMat' :
             ( /\ meshMat'[m].kind = "video"
               /\ (m \in DOMAIN meshMat => meshMat[m] # meshMat'[m]) )
                => /\ meshMat'[m].tex \in DOMAIN videos
                   /\ videos[meshMat'[m].tex].status = "pending"
                   /\ videos'[meshMat'[m].tex].status = "bound"]_vars

\* the asset of version 4 is the loaded model after a version change, a plane
\* of the behaviour tracks a bound video that its 2D plane displays, and no
\* mesh of the new asset shows a video
SwappedUnderBoundMedia ==
    /\ model3D # 0
    /\ currentModelVersion = 4
    /\ storage = toString(4)
    /\ assetLoads[model3D].version = 4
    /\ \E n \in scope :
          /\ videoElements[n] # << >>
          /\ videos[videoElements[n][1]].status = "bound"
          /\ Shows(mat2D[n], videoElements[n][1])
    /\ \A m \in Range(ModelMeshes(model3D)) : meshMat[m].kind # "video"

\* the step settles the pending load l of a setMode or setModelVersion call
\* without the asset having been resolved into the model
SettlesUnresolved(l) ==
    /\ assetLoads[l].state = "pending"
    /\ assetLoads[l].caller \in {"setMode", "setModelVersion"}
    /\ assetLoads'[l].state # "pending"
    /\ ~Classifies(l)

\* C21: a failure to resolve the asset is propagated. Whenever the load of a
\* setMode('3d') or setModelVersion(v) call settles without the asset, the
\* call ends as failed: it is not recorded as loaded, no model is shown for
\* it and show3DMode does not run.
AssetFailurePropagates ==
    [][\A l \in DOMAIN assetLoads :
          SettlesUnresolved(l) =>
              /\ assetLoads'[l].state = "failed"
              /\ model3D' = model3D
              /\ modelVisible' = modelVisible
              /\ planesVisible' = planesVisible]_vars

\* the load of a setMode or setModelVersion call has failed while another
\* load is still pending
FailedCallerLoad ==
    \E l \in DOMAIN assetLoads :
        /\ assetLoads[l].state = "failed"
        /\ l > 1
        /\ \E k \in DOMAIN assetLoads : assetLoads[k].state = "pending"

\* C22: the stored version is validated at startup. The current model
\* version is always within the supported range 1 to 10: it comes from the
\* constructor's read of the store or from a version the page accepted.
VersionInSupportedRange == currentModelVersion \in SupportedVersions

\* the step completes a setModelVersion call with success: its asset load
\* resolves, or it changes the version in 2D mode, where nothing is loaded
CompletesVersionChange(v) ==
    \/ \E l \in DOMAIN assetLoads :
          /\ Classifies(l)
          /\ assetLoads[l].caller = "setModelVersion"
          /\ assetLoads[l].version = v
    \/ /\ currentModelVersion # v
       /\ currentModelVersion' = v
       /\ mode = "2d"

\* C23: the version is written on every successful change. When a
\* setModelVersion(v) call completes with success the store holds v, and a
\* constructor reading the store resumes with version v.
StoredVersionFollowsChange ==
    [][\A v \in Versions :
          CompletesVersionChange(v) =>
              /\ storage' = toString(v)
              /\ loadModelVersionFromStorage(storage', TRUE) = v]_vars

\* clearVideoFromPlane(n) called in this state would leave every surface,
\* every video element and both tables as they are
ClearChangesNothing(n) ==
    /\ ClearedMat2D(n) = mat2D
    /\ ClearedMeshMat(n) = meshMat
    /\ ReleasedVideos(n) = videos
    /\ UntrackedVideos(n) = videoElements
    /\ videoTextures[n] = << >>

\* C24: release is idempotent. After any clearVideoFromPlane(n), whether n
\* had bound media, none, or media already replaced, a second clear of n
\* changes nothing: the state is that of the single clear.
ClearIsIdempotent ==
    [][\A n \in scope : clearVideoFromPlane(n) => ClearChangesNothing(n)']_vars

\* a plane whose first media was replaced by a second and then cleared: both
\* videos are released and the plane tracks nothing
ClearedAfterReplace ==
    \E n \in scope : \E i, j \in DOMAIN videos :
        /\ i < j
        /\ videos[i].name = n /\ videos[j].name = n
        /\ videos[i].status = "bound" /\ videos[j].status = "bound"
        /\ Released(i) /\ Released(j)
        /\ videoElements[n] = << >>
        /\ videoTextures[n] = << >>

\* the mesh name is matched by a composite-group rule of load3DModel
IsCompositePart(name) == IsA7Part(name) \/ IsBigMapPart(name)

\* the mesh name is given a fixed black or almost white material
IsDecorative(name) ==
    \/ name \in {"K2 inner", "K4 inner", "Skeptrons", "Skeptrons_Inside",
                 "Skeptrons_Outside"}
    \/ IsCeiling(name)

\* C25: classification gives each mesh one role. A mesh of a composite
\* group is not registered as the surface of a catalog plane, a mesh with a
\* fixed decorative material is not registered for binding at all, and a mesh
\* matched by no rule keeps its authored material.
OneRolePerMesh ==
    \A m \in originalMaterials :
        /\ IsCompositePart(m[2]) => \A k \in PlaneNames : model3DPlanes[k] # m
        /\ IsDecorative(m[2]) => \A k \in Keys3D : model3DPlanes[k] # m
        /\ ( /\ ~IsCompositePart(m[2])
             /\ ~IsDecorative(m[2])
             /\ ~RegistersPlane(m[2]) ) => meshMat[m] = Authored

\* the material has the values highlightPlane gives an emphasized mesh
IsEmphasized(mat) == mat.emissiveIntensity = 10 /\ mat.opacity = 100

\* the material has the values highlightPlane gives a dimmed mesh
IsDimmed(mat) == mat.emissiveIntensity = 1 /\ mat.opacity <= 40

\* every mesh of the set is emphasized, or every mesh of it is dimmed
OneUnit(parts) ==
    \/ \A m \in parts : IsEmphasized(meshMat[m])
    \/ \A m \in parts : IsDimmed(meshMat[m])

\* C26: highlightPlane emphasizes the surfaces of the name and composites
\* change as one unit. After every highlightPlane(n) the 2D plane of n and
\* the meshes registered for n are emphasized, and the parts of A7 are all
\* emphasized or all dimmed, and so are the parts of BIG-MAP.
HighlightKeepsCompositesWhole ==
    [][\A n \in HighlightNames :
          highlightPlane(n) =>
              /\ mat2D'[n].opacity = 100
              /\ (model3D # 0 =>
                    /\ \A m \in Registered3D(n) : IsEmphasized(meshMat'[m])
                    /\ OneUnit(Range(a7Parts))'
                    /\ OneUnit(Range(bigMapPlanes))')]_vars

\* C27: a load completes only on loadedmetadata. A video whose
\* loadedmetadata event has not been dispatched has not resolved as bound,
\* has no texture, is not tracked, and no 2D plane or mesh displays it;
\* the loadstart event alone changes none of this.
LoadWaitsForMetadata ==
    \A v \in DOMAIN videos :
        "loadedmetadata" \notin videos[v].events =>
            /\ ~LoadResult(v)
            /\ videos[v].tex = "none"
            /\ \A n \in BindNames :
                  v \notin Range(videoElements[n]) /\ v \notin Range(videoTextures[n])
            /\ \A n \in DOMAIN mat2D : ~Shows(mat2D[n], v)
            /\ \A m \in DOMAIN meshMat : ~Shows(meshMat[m], v)

\* the source of a video is being fetched, its metadata is not known yet,
\* and the model with the plane's meshes is loaded
FetchingBeforeMetadata ==
    \E v \in DOMAIN videos :
        /\ videos[v].events = {"loadstart"}
        /\ videos[v].status = "pending"
        /\ model3D # 0
        /\ ApplyTargets3D(videos[v].name) # {}

\* the videos whose texture applyUVMapping has cropped
Mapped == { v \in DOMAIN videos : "loadedmetadata" \in videos[v].events }

\* C28: the crop scales are within (0, 1]. For every plane name and every
\* video size, the texture of a loaded video has 0 < scaleX <= 1 and
\* 0 < scaleY <= 1.
CropScalesInUnitRange ==
    \A v \in Mapped :
        /\ FrLess(FrZero, videos[v].crop.scaleX)
        /\ ~FrLess(FrOne, videos[v].crop.scaleX)
        /\ FrLess(FrZero, videos[v].crop.scaleY)
        /\ ~FrLess(FrOne, videos[v].crop.scaleY)

\* an extreme case of the vertical crop: the 16:9 video on the strip A1, whose
\* raw quotient of about 0.024 is below the floor
ExtremeStripCropped ==
    \E v \in Mapped :
        /\ videos[v].name = "A1"
        /\ videos[v].size = << 1920, 1080 >>
        /\ videos[v].crop.scaleY = Fr(1, 10)

\* originalWidth / originalHeight of the plane of video v
TargetRatio(v) == Fr(ConfigOf(videos[v].name).width, ConfigOf(videos[v].name).height)

\* videoWidth / videoHeight of video v
MediaRatio(v) == Fr(videos[v].size[1], videos[v].size[2])

\* video v is on a catalog plane, has a video track, and its ratio differs
\* from the plane's by more than the tolerance
NeedsCrop(v) ==
    /\ videos[v].name \in PlaneNames
    /\ videos[v].size[2] # 0
    /\ FrLess(Tolerance, FrAbs(FrSub(MediaRatio(v), TargetRatio(v))))

\* C29: the crop window is centred with the clamped scale. For a video wider
\* than its plane scaleX = max(0.001, target / media), offsetX = (1 - scaleX) / 2,
\* scaleY = 1 and offsetY = 0; for a narrower one scaleY = max(minScale,
\* media / target), offsetY = (1 - scaleY) / 2, scaleX = 1 and offsetX = 0;
\* and offset + scale <= 1 on both axes.
CropCentredOnClampedScale ==
    \A v \in Mapped :
        NeedsCrop(v) =>
            /\ IF FrLess(TargetRatio(v), MediaRatio(v))
               THEN /\ videos[v].crop.scaleX
                          = FrMax(Fr(1, 1000), FrDiv(TargetRatio(v), MediaRatio(v)))
                    /\ videos[v].crop.offsetX
                          = FrHalf(FrSub(FrOne, videos[v].crop.scaleX))
                    /\ videos[v].crop.scaleY = FrOne
                    /\ videos[v].crop.offsetY = FrZero
               ELSE /\ videos[v].crop.scaleY
                          = FrMax(MinScale(videos[v].name),
                                  FrDiv(MediaRatio(v), TargetRatio(v)))
                    /\ videos[v].crop.offsetY
                          = FrHalf(FrSub(FrOne, videos[v].crop.scaleY))
                    /\ videos[v].crop.scaleX = FrOne
                    /\ videos[v].crop.offsetX = FrZero
            /\ ~FrLess(FrOne, FrAdd(videos[v].crop.offsetX, videos[v].crop.scaleX))
            /\ ~FrLess(FrOne, FrAdd(videos[v].crop.offsetY, videos[v].crop.scaleY))

\* the crop leaves the X axis, or the Y axis, as the full texture has it
FullX(crop) == crop.scaleX = FrOne /\ crop.offsetX = FrZero

FullY(crop) == crop.scaleY = FrOne /\ crop.offsetY = FrZero

\* the crop is not the identity on exactly one axis
CropsOneAxis(crop) == FullX(crop) # FullY(crop)

\* both ratios of video v exist and differ by at most the tolerance
WithinTolerance(v) ==
    /\ videos[v].name \in PlaneNames
    /\ videos[v].size[2] # 0
    /\ ~FrLess(Tolerance, FrAbs(FrSub(MediaRatio(v), TargetRatio(v))))

CropsVertically(v) == NeedsCrop(v) /\ FrLess(MediaRatio(v), TargetRatio(v))

\* C31: the vertical crop is clamped to the floor of the plane. A 16:9 video
\* on A1 (10512 x 144) gets scaleX = 1 and scaleY = 0.1, not the quotient
\* 16/657 of the ratios; and for every video narrower than its plane scaleY
\* is the larger of the quotient and the floor, which is 0.1 on A7, A1, A2,
\* 0.05 on K2, K4 and 0.001 on every other plane.
VerticalCropClampedToFloor ==
    \A v \in Mapped :
        /\ CropsVertically(v) =>
              /\ videos[v].crop.scaleX = FrOne
              /\ videos[v].crop.scaleY
                    = FrMax(IF videos[v].name \in {"A7", "A1", "A2"} THEN Fr(1, 10)
                            ELSE IF videos[v].name \in {"K2", "K4"} THEN Fr(1, 20)
                            ELSE Fr(1, 1000),
                            FrDiv(MediaRatio(v), TargetRatio(v)))
        /\ (videos[v].name = "A1" /\ videos[v].size = << 1920, 1080 >>) =>
              /\ CropsVertically(v)
              /\ videos[v].crop.scaleY = Fr(1, 10)
              /\ videos[v].crop.scaleY # FrDiv(MediaRatio(v), TargetRatio(v))

\* a 16:9 video on A1 whose window is the full width and the centred tenth
\* of the height, the quotient of the ratios being 16/657
A1WindowAtFloor ==
    \E v \in Mapped :
        /\ videos[v].name = "A1"
        /\ videos[v].size = << 1920, 1080 >>
        /\ MediaRatio(v) = Fr(16, 9)
        /\ FrDiv(MediaRatio(v), TargetRatio(v)) = Fr(16, 657)
        /\ videos[v].crop = Crop(FrOne, Fr(1, 10), FrZero, Fr(9, 20))

\* C32: the playback summary is that of the first-bound handle still bound.
\* With no tracked video getVideoPlaybackInfo returns currentTime 0, duration
\* 0, isPlaying false and videoCount 0; otherwise its currentTime, duration
\* and isPlaying are those of the tracked video that was bound first, and
\* videoCount is the number of plane names with a tracked video.
SummaryOfFirstBound ==
    IF TrackedIds = {}
    THEN getVideoPlaybackInfo
            = [currentTime |-> 0, duration |-> 0, isPlaying |-> FALSE, videoCount |-> 0]
    ELSE /\ getVideoPlaybackInfo.currentTime = videos[FirstBoundVideo].currentTime
         /\ getVideoPlaybackInfo.duration = Duration(FirstBoundVideo)
         /\ getVideoPlaybackInfo.isPlaying = IsPlaying(FirstBoundVideo)
         /\ getVideoPlaybackInfo.videoCount
               = Cardinality({ n \in BindNames : isVideoLoadedOnPlane(n) })

\* C33: setGlobalVolume(v) changes the volume of the unmuted tracked videos
\* only. In every state and for every v, after the call each tracked video
\* that is not muted has the volume 0 for v < 0, 1 for v > 1 and v otherwise;
\* every muted video and every untracked one is as it was; and the muted flag
\* and the paused flag of every video are as they were.
VolumeOnlyOnUnmuted ==
    \A volume \in Volumes :
        \A i \in DOMAIN videos :
            /\ IF i \in TrackedIds /\ ~videos[i].muted
               THEN VolumeSet(volume)[i].volume
                       = (IF volume < 0 THEN 0 ELSE IF volume > 100 THEN 100 ELSE volume)
               ELSE VolumeSet(volume)[i] = videos[i]
            /\ VolumeSet(volume)[i].muted = videos[i].muted
            /\ VolumeSet(volume)[i].paused = videos[i].paused

\* two tracked videos after volume changes: the unmuted one, playing, at the
\* volume 0.4 and the muted one still at a volume set before it was muted
MutedKeepsOlderVolume ==
    \E i, j \in TrackedIds :
        /\ ~videos[i].muted /\ videos[i].volume = 40 /\ ~videos[i].paused
        /\ videos[j].muted /\ videos[j].volume = 0

\* C34: the batch isolates the failure of a plane. When the loop of
\* handleAutoDetectVideos has finished, it has attempted the load of every
\* matched plane, whatever the earlier loads returned or threw, and
\* successCount is the number of matched planes whose load returned true.
BatchAttemptsEveryPlane ==
    Finished =>
        /\ Len(autoDetect.attempts) = Len(autoDetect.matched)
        /\ \A k \in DOMAIN autoDetect.attempts :
              autoDetect.attempts[k] # 0 =>
                  videos[autoDetect.attempts[k]].name = autoDetect.matched[k]
        /\ autoDetect.successCount
              = Cardinality({ k \in DOMAIN autoDetect.attempts :
                                /\ autoDetect.attempts[k] # 0
                                /\ LoadResult(autoDetect.attempts[k]) })

\* a finished batch of two planes whose first load failed and whose second
\* load returned true
SecondLoadedAfterFailure ==
    /\ Finished
    /\ Len(autoDetect.matched) = 2
    /\ autoDetect.attempts[1] # 0
    /\ videos[autoDetect.attempts[1]].status = "failed"
    /\ autoDetect.attempts[2] # 0
    /\ LoadResult(autoDetect.attempts[2])
    /\ autoDetect.successCount = 1

\* the tables of the classification hold meshes of model l only
TablesOf(l) ==
    /\ \A k \in Keys3D : model3DPlanes[k] # NoMesh => model3DPlanes[k][1] = l
    /\ \A m \in Range(a7Parts) \cup Range(bigMapPlanes) : m[1] = l

\* C35: the resident model is the asset of the current version. Whenever
\* model3D is set and no asset load is pending, model3D and the tables
\* model3DPlanes, a7Parts and bigMapPlanes come from the asset of
\* currentModelVersion: a load begun for an older version that completes after
\* the version changed is not the resident model.
ResidentIsCurrentVersion ==
    (model3D # 0 /\ \A l \in DOMAIN assetLoads : assetLoads[l].state # "pending") =>
        /\ assetLoads[model3D].version = currentModelVersion
        /\ TablesOf(model3D)

\* C36: a clear issued while a load is in flight wins over the load. A state
\* with a pending load of plane n in which clearVideoFromPlane(n) changes
\* nothing is the state that a clear issued during the load leaves; when the
\* load resolves from it, n has no tracked video and every surface of n has
\* the fallback tint.
ClearWinsOverPendingLoad ==
    [][\A v \in DOMAIN videos :
          ( /\ videos[v].status = "pending"
            /\ ClearChangesNothing(videos[v].name)
            /\ videos'[v].status # "pending" ) =>
              ( /\ ~isVideoLoadedOnPlane(videos[v].name)'
                /\ FallbackEverywhere(videos[v].name)' )]_vars

\* the load that setModelVersion(v) awaits is rejected while v is still the
\* current version
VersionChangeFails(l) ==
    /\ assetLoads[l].state = "pending"
    /\ assetLoads[l].caller = "setModelVersion"
    /\ assetLoads[l].version = currentModelVersion
    /\ assetLoads'[l].state = "failed"

\* C37: a failed version change leaves the version state as it was before
\* the call. When the load of setModelVersion(v) fails, currentModelVersion
\* and the stored preference are not v but the value they had before the
\* call, so that setModelVersion(v) called again is not a no-op.
FailedChangeKeepsVersion ==
    [][\A l \in DOMAIN assetLoads :
          VersionChangeFails(l) =>
              /\ currentModelVersion' # assetLoads[l].version
              /\ loadModelVersionFromStorage(storage', TRUE) # assetLoads[l].version]_vars

\* the material has the opacity and the emissive values its constructor call
\* gave it: no highlight is in effect on it
AsBuilt(mat, is2D) ==
    IF mat.kind = "video"
    THEN mat.opacity = 90 /\ mat.emissive = 16777215 /\ mat.emissiveIntensity = 9
    ELSE /\ mat.opacity = (IF is2D THEN 80 ELSE 100)
         /\ mat.emissive = 0 /\ mat.emissiveIntensity = 10

\* two materials with the same opacity and the same emissive values
SameGlow(a, b) ==
    /\ a.opacity = b.opacity
    /\ a.emissive = b.emissive
    /\ a.emissiveIntensity = b.emissiveIntensity

\* C38: resetHighlight undoes highlightPlane. In every state in which no
\* highlight is in effect and for every plane name, highlightPlane(name)
\* followed by resetHighlight() leaves every 2D plane and every mesh with the
\* opacity and the emissive values it has now, whether it shows a video or
\* the fallback tint.
ResetUndoesHighlight ==
    ( /\ \A n \in DOMAIN mat2D : AsBuilt(mat2D[n], TRUE)
      /\ \A m \in DOMAIN meshMat : AsBuilt(meshMat[m], FALSE) ) =>
        \A name \in HighlightNames :
            /\ \A n \in DOMAIN mat2D :
                  SameGlow(ResetMat2D(HighlightedMat2D(name))[n], mat2D[n])
            /\ \A m \in DOMAIN meshMat :
                  SameGlow(ResetMeshMat(HighlightedMeshMat(name))[m], meshMat[m])

\* C39: at most one animation-frame callback of the timeline display is
\* pending. In every state reached by play, pause and stop clicks, seek drags,
\* the interval tick and the frame callbacks, at most one requested frame has
\* not yet run, and after a pause click none is pending.
OneFrameLoop ==
    /\ Cardinality(timeline.pending) <= 1
    /\ Cancelled(timeline).pending = {}

\* C40: the bound media share one playback phase. In every state reached by
\* binds, clears and the transport operations either every tracked video is
\* playing or every tracked video is paused; a video bound after
\* playAllVideos plays like those bound before it.
OnePlaybackPhase ==
    \/ \A i \in TrackedIds : IsPlaying(i)
    \/ \A i \in TrackedIds : ~IsPlaying(i)

====
